---- MODULE Spec2Model ----
(***************************************************************************)
(* A model of the request-processing engine of the gateway (rust-proxy):   *)
(* the circuit breaker, the token-bucket and fixed-window rate limiters,   *)
(* the middleware chain and the route selection of get_destination/proxy,  *)
(* the TLS listener with its certificate watcher, and the listener tasks   *)
(* with their shutdown channels.                                           *)
(* Every operation of the source is a pure operator over the value it      *)
(* mutates (named as in the source) and an action that applies it.         *)
(***************************************************************************)
EXTENDS Integers, Sequences, FiniteSets, TLC

VARIABLES
    now,        \* the clock read by Instant::now() / SystemTime::now()
    cb,         \* the CircuitBreaker behind its Arc<Mutex<..>>: parameters and state
    pc,         \* per request task: "idle" | "inflight" (admitted, upstream call pending)
    resp,       \* per request task: the CheckResult of its last check_request
    hoAllowed,  \* history: checks answered Allowed while HalfOpen, since HalfOpen was entered
    nChecks,    \* history: check_request calls so far
    nAllowed,   \* history: checks answered Allowed so far
    nSuccess,   \* history: 1 once a success has been recorded, else 0
    run,        \* history: failures recorded in Closed since the last recorded success
    overlap,    \* history: some check ran while another request was in flight
    tb,         \* the TokenBucketRateLimit behind its Arc<Mutex<Ratelimit>>
    build,      \* the build profile: "debug" (overflow checks) | "release" (wrapping)
    poisoned,   \* the limiter's mutex is poisoned (a holder panicked)
    burst,      \* history: results of the matching calls since the clock last advanced
    nCalls,     \* history: should_limit calls so far
    nMatched,   \* history: matching should_limit calls so far
    nAdv,       \* history: advances of the wall clock so far
    tbLock,     \* the Mutex of the Arc<Mutex<Ratelimit>>: its holder (0 when free)
    tbTask,     \* per concurrent check_request: its position, request, view and result
    tbStart,    \* history: current_count when the concurrent calls began
    fw,         \* the FixedWindowRateLimit behind its Arc<Mutex<Ratelimit>>
    fwLast,     \* the result of the latest should_limit call on fw
    fwWin,      \* history: time key of the latest matching call on fw
    fwAllowed,  \* history: matching calls answered Ok(None) in window fwWin
    fwEvicted,  \* history: entries removed from count_map so far
    fwCalls,    \* history: should_limit calls on fw so far
    fwAdv,      \* history: advances of the wall clock under the fixed window
    routes,     \* the listener's route_configs (matchers, middlewares and their state)
    conn,       \* per connection task: its position in proxy() and what it did so far
    pxReqs,     \* history: requests received by the listener so far
    certFiles,  \* cert.pem and key.pem of the listener's domain, as load_tls_config finds them
    tlsListener,\* start_https_server: "starting" | "accepting" | "failed"
    tlsConfigs, \* history: the ServerConfigs built so far, in order ("files" | "self-signed")
    tlsShared,  \* the ServerConfig inside shared_tls_config, by part: [cert, key]
    tlsLock,    \* the RwLock of shared_tls_config: [writer, reader]
    tlsWatcher, \* the certificate watcher task: its position, the config it built, the file events before its last read
    tlsPending, \* file events the notify callback has not yet sent
    tlsEvents,  \* messages in the watcher's channel (capacity 1)
    tlsInstalled, \* history: the config the latest completed swap (or the start) installed
    tlsAccept,  \* the HTTPS accept loop: its position and the connection it is accepting
    hs,         \* per TLS connection: its position, its acceptor's config, history
    nFileEvents,\* history: changes of the certificate files so far
    listener,   \* per port: the listener task of start_http_server (position, error logged, bound after a failure elsewhere)
    shutdown,   \* per port: messages waiting in the listener's shutdown channel
    task,       \* per connection task: its port, its position, what it answered last
    nAccepted,  \* history: connections accepted so far
    nSent,      \* history: shutdown messages sent so far
    wsCall,     \* server_upgrade: its position, the request, what it returned
    relay,      \* the task of proxy_websocket_connection: its position, both copies
    wire,       \* the two upgraded streams: bytes written, bytes delivered, closes
    grpcCall,   \* a transcoded request: its position, the request, the response
    nGrpc,      \* history: transcoded requests received so far
    running,    \* the configuration the gateway runs: its listen ports and routes
    reloadAnswer, \* the status of the latest POST /reload (0 before the first)
    nReloads,   \* history: POST /reload requests so far
    restarts,   \* history: listeners stopped or started by reloads so far
    wrr,        \* the WeightBased router: per route its weight, counter, liveness
    picks,      \* history: the routes picked since the counters were last all zero
    nPicks,     \* history: picks so far
    challenges, \* the challenge map of the ACME challenge server: token -> key authorization
    acmeReq,    \* the latest request to the challenge server
    acmeRes,    \* its response
    nAcme,      \* history: requests to the challenge server so far
    issuance,   \* start_request2: its position, the shutdown sender, the server task, open connections, the result
    nConns,     \* history: connections the challenge server accepted so far
    appLock,    \* the Mutex<AppConfig> of SharedConfig: its holder (0 when free)
    rq,         \* per request task: its position in proxy() and its destination
    nLocked,    \* history: acquisitions of the mutex so far
    mwLock,     \* per middleware cell (Arc<Mutex<..>>): its holder (0 when free)
    ser         \* the admin handler's place in serialising the configuration

cbVars == <<cb, pc, resp, hoAllowed, nChecks, nAllowed, nSuccess, run, overlap>>
tbVars == <<tb, build, poisoned, burst, nCalls, nMatched, nAdv, tbLock, tbTask, tbStart>>
fwVars == <<fw, fwLast, fwWin, fwAllowed, fwEvicted, fwCalls, fwAdv>>
pxVars == <<routes, conn, pxReqs>>
tlsVars == <<certFiles, tlsListener, tlsConfigs, tlsShared, tlsLock, tlsWatcher,
             tlsPending, tlsEvents, tlsInstalled, tlsAccept, hs, nFileEvents>>
lsVars == <<listener, shutdown, task, nAccepted, nSent>>
wsVars == <<wsCall, relay, wire>>
grpcVars == <<grpcCall, nGrpc>>
rlVars == <<running, reloadAnswer, nReloads, restarts>>
wrrVars == <<wrr, picks, nPicks>>
acmeVars == <<challenges, acmeReq, acmeRes, nAcme, issuance, nConns>>
lockVars == <<appLock, rq, nLocked, mwLock, ser>>
vars == <<now, cb, pc, resp, hoAllowed, nChecks, nAllowed, nSuccess, run, overlap,
          tb, build, poisoned, burst, nCalls, nMatched, nAdv, tbLock, tbTask, tbStart,
          fw, fwLast, fwWin, fwAllowed, fwEvicted, fwCalls, fwAdv,
          routes, conn, pxReqs,
          certFiles, tlsListener, tlsConfigs, tlsShared, tlsLock, tlsWatcher,
          tlsPending, tlsEvents, tlsInstalled, tlsAccept, hs, nFileEvents,
          listener, shutdown, task, nAccepted, nSent,
          wsCall, relay, wire, grpcCall, nGrpc,
          running, reloadAnswer, nReloads, restarts, wrr, picks, nPicks,
          challenges, acmeReq, acmeRes, nAcme, issuance, nConns,
          appLock, rq, nLocked, mwLock, ser>>

Min(a, b) == IF a <= b THEN a ELSE b

(***************************************************************************)
(* Bounds of the model.                                                    *)
(***************************************************************************)
MaxTime == 5
MaxChecks == 6
NumTasks == 3

Tasks == 1..NumTasks

(***************************************************************************)
(* middleware/circuit_breaker.rs                                           *)
(***************************************************************************)
\* enum State, and its Default: Closed with all counters 0.
StateClosed(f, t, c) ==
    [tag |-> "Closed", failures |-> f, total_requests |-> t, consecutive_failures |-> c]

StateOpen(at) == [tag |-> "Open", opens_at |-> at]

StateHalfOpen(s, t) == [tag |-> "HalfOpen", success_probes |-> s, total_probes |-> t]

StateDefault == StateClosed(0, 0, 0)

\* struct CircuitBreaker. failure_rate_threshold is the f64 rate_num / rate_den.
CircuitBreaker(num, den, cft, dur, hmax, minreq) ==
    [rate_num |-> num, rate_den |-> den,
     consecutive_failure_threshold |-> cft,
     open_duration |-> dur,
     half_open_max_requests |-> hmax,
     min_requests_for_rate_calculation |-> minreq,
     state |-> StateDefault]

\* trip that opens the breaker without the cooldown (opens_at = now).
trip_without_cooldown(b, t) == [b EXCEPT !.state = StateOpen(t)]

\* fn trip: Open until Instant::now() + open_duration.
trip(b, t) == [b EXCEPT !.state = StateOpen(t + b.open_duration)]

\* fn reset_to_closed
reset_to_closed(b) == [b EXCEPT !.state = StateClosed(0, 0, 0)]

\* is_call_allowed leaving Open one tick early (t + 1 >= opens_at).
is_call_allowed_early(b, t) ==
    CASE b.state.tag = "Closed" -> [allowed |-> TRUE, cb |-> b]
      [] b.state.tag = "Open" ->
            IF t + 1 >= b.state.opens_at
            THEN [allowed |-> TRUE, cb |-> [b EXCEPT !.state = StateHalfOpen(0, 0)]]
            ELSE [allowed |-> FALSE, cb |-> b]
      [] b.state.tag = "HalfOpen" ->
            [allowed |-> b.state.total_probes < b.half_open_max_requests, cb |-> b]

\* is_call_allowed still denying at the instant opens_at (t > opens_at).
is_call_allowed_late(b, t) ==
    CASE b.state.tag = "Closed" -> [allowed |-> TRUE, cb |-> b]
      [] b.state.tag = "Open" ->
            IF t > b.state.opens_at
            THEN [allowed |-> TRUE, cb |-> [b EXCEPT !.state = StateHalfOpen(0, 0)]]
            ELSE [allowed |-> FALSE, cb |-> b]
      [] b.state.tag = "HalfOpen" ->
            [allowed |-> b.state.total_probes < b.half_open_max_requests, cb |-> b]

\* fn is_call_allowed: the answer and the breaker after the call.
is_call_allowed(b, t) ==
    CASE b.state.tag = "Closed" -> [allowed |-> TRUE, cb |-> b]
      [] b.state.tag = "Open" ->
            IF t >= b.state.opens_at
            THEN [allowed |-> TRUE, cb |-> [b EXCEPT !.state = StateHalfOpen(0, 0)]]
            ELSE [allowed |-> FALSE, cb |-> b]
      [] b.state.tag = "HalfOpen" ->
            [allowed |-> b.state.total_probes < b.half_open_max_requests, cb |-> b]

\* record_success that does not reset consecutive_failures in Closed.
record_success_no_reset(b) ==
    CASE b.state.tag = "Closed" ->
            [b EXCEPT !.state = StateClosed(b.state.failures,
                                            b.state.total_requests + 1,
                                            b.state.consecutive_failures)]
      [] b.state.tag = "HalfOpen" -> reset_to_closed(b)
      [] b.state.tag = "Open" -> b

\* fn record_success
record_success(b) ==
    CASE b.state.tag = "Closed" ->
            [b EXCEPT !.state = StateClosed(b.state.failures,
                                            b.state.total_requests + 1, 0)]
      [] b.state.tag = "HalfOpen" -> reset_to_closed(b)
      [] b.state.tag = "Open" -> b

\* current_failure_rate >= failure_rate_threshold, on f failures of n requests.
RateReached(b, f, n) == f * b.rate_den >= b.rate_num * n

\* record_failure applying the rate rule below min_requests_for_rate_calculation.
record_failure_no_min(b, t) ==
    CASE b.state.tag = "Closed" ->
            LET f == b.state.failures + 1
                n == b.state.total_requests + 1
                c == b.state.consecutive_failures + 1
            IN  IF c >= b.consecutive_failure_threshold
                THEN trip(b, t)
                ELSE IF RateReached(b, f, n)
                     THEN trip(b, t)
                     ELSE [b EXCEPT !.state = StateClosed(f, n, c)]
      [] b.state.tag = "HalfOpen" -> trip(b, t)
      [] b.state.tag = "Open" -> b

\* record_failure tripping only above the consecutive threshold (c > ..).
record_failure_trips_above(b, t) ==
    CASE b.state.tag = "Closed" ->
            LET f == b.state.failures + 1
                n == b.state.total_requests + 1
                c == b.state.consecutive_failures + 1
            IN  IF c > b.consecutive_failure_threshold
                THEN trip(b, t)
                ELSE IF n >= b.min_requests_for_rate_calculation /\ RateReached(b, f, n)
                     THEN trip(b, t)
                     ELSE [b EXCEPT !.state = StateClosed(f, n, c)]
      [] b.state.tag = "HalfOpen" -> trip(b, t)
      [] b.state.tag = "Open" -> b

\* fn record_failure
record_failure(b, t) ==
    CASE b.state.tag = "Closed" ->
            LET f == b.state.failures + 1
                n == b.state.total_requests + 1
                c == b.state.consecutive_failures + 1
            IN  IF c >= b.consecutive_failure_threshold
                THEN trip(b, t)
                ELSE IF n >= b.min_requests_for_rate_calculation /\ RateReached(b, f, n)
                     THEN trip(b, t)
                     ELSE [b EXCEPT !.state = StateClosed(f, n, c)]
      [] b.state.tag = "HalfOpen" -> trip(b, t)
      [] b.state.tag = "Open" -> b

\* The Denial of the breaker's check_request: 503, Retry-After: 30.
Denial503 ==
    [kind |-> "Denied", status |-> 503, retry_after |-> 30, body |-> "Service unavailable"]

\* CheckResult::Allowed
Allowed == [kind |-> "Allowed"]

\* No check made yet.
NoResult == [kind |-> "None"]

\* Err(AppError) returned by a call, and a panic raised in it.
ErrResult == [kind |-> "Err"]

PanicResult == [kind |-> "Panic"]

\* impl Middleware for Arc<Mutex<CircuitBreaker>>: check_request
cb_check_request(b, t) ==
    LET r == is_call_allowed(b, t)
    IN  [result |-> IF r.allowed THEN Allowed ELSE Denial503, cb |-> r.cb]

\* record_outcome whose failure trips an Open breaker again.
cb_record_outcome_retrips(b, ok, t) ==
    IF ok THEN record_success(b)
    ELSE IF b.state.tag = "Open" THEN trip(b, t)
    ELSE record_failure(b, t)

\* impl Middleware for Arc<Mutex<CircuitBreaker>>: record_outcome; ok is
\* "the result is a response whose status is 2xx".
cb_record_outcome(b, ok, t) == IF ok THEN record_success(b) ELSE record_failure(b, t)

\* The breakers a configuration can declare (all fields are mandatory).
BreakerConfigs ==
    { CircuitBreaker(1, 2, cft, 2, hmax, minreq) :
        cft \in 1..3, hmax \in 1..2, minreq \in {1, 3} }

(***************************************************************************)
(* The breaker under concurrent request tasks.  Each step is one critical  *)
(* section of the breaker's mutex.                                         *)
(***************************************************************************)
\* The parts of the state a specification does not use stay at these values.
NoBreaker ==
    /\ cb = CircuitBreaker(1, 1, 1, 1, 1, 1)
    /\ pc = [t \in Tasks |-> "idle"]
    /\ resp = [t \in Tasks |-> NoResult]
    /\ hoAllowed = 0 /\ nChecks = 0 /\ nAllowed = 0 /\ nSuccess = 0 /\ run = 0
    /\ overlap = FALSE

NoTokenBucket ==
    /\ tb = <<>> /\ build = "release" /\ poisoned = FALSE
    /\ burst = <<>> /\ nCalls = 0 /\ nMatched = 0 /\ nAdv = 0
    /\ tbLock = 0 /\ tbTask = <<>> /\ tbStart = 0

NoFixedWindow ==
    /\ fw = <<>> /\ fwLast = NoResult /\ fwWin = "" /\ fwAllowed = 0
    /\ fwEvicted = 0 /\ fwCalls = 0 /\ fwAdv = 0

NoListener == routes = <<>> /\ conn = <<>> /\ pxReqs = 0

NoTls ==
    /\ certFiles = <<>> /\ tlsListener = "" /\ tlsConfigs = <<>> /\ tlsShared = <<>>
    /\ tlsLock = <<>> /\ tlsWatcher = <<>> /\ tlsPending = 0 /\ tlsEvents = 0
    /\ tlsInstalled = 0 /\ tlsAccept = <<>> /\ hs = <<>> /\ nFileEvents = 0

NoAcceptLoop ==
    listener = <<>> /\ shutdown = <<>> /\ task = <<>> /\ nAccepted = 0 /\ nSent = 0

NoRelay == wsCall = <<>> /\ relay = <<>> /\ wire = <<>>

NoTranscoding == grpcCall = <<>> /\ nGrpc = 0

NoReload == running = <<>> /\ reloadAnswer = 0 /\ nReloads = 0 /\ restarts = 0

NoWeightBased == wrr = <<>> /\ picks = <<>> /\ nPicks = 0

NoAcme ==
    /\ challenges = <<>> /\ acmeReq = <<>> /\ acmeRes = <<>> /\ nAcme = 0
    /\ issuance = <<>> /\ nConns = 0

NoAppLock == appLock = 0 /\ rq = <<>> /\ nLocked = 0 /\ mwLock = <<>> /\ ser = 0

\* The parts of the gateway that the runs of one component leave out.
NoEdge == NoRelay /\ NoTranscoding /\ NoReload /\ NoWeightBased /\ NoAcme /\ NoAppLock

InitCB ==
    /\ NoTokenBucket
    /\ NoFixedWindow
    /\ NoListener
    /\ NoTls
    /\ NoAcceptLoop
    /\ NoEdge
    /\ now = 0
    /\ cb \in BreakerConfigs
    /\ pc = [t \in Tasks |-> "idle"]
    /\ resp = [t \in Tasks |-> NoResult]
    /\ hoAllowed = 0
    /\ nChecks = 0
    /\ nAllowed = 0
    /\ nSuccess = 0
    /\ run = 0
    /\ overlap = FALSE

\* A request task runs check_request on the breaker.
CheckRequest(t) ==
    /\ pc[t] = "idle"
    /\ nChecks < MaxChecks
    /\ LET r == cb_check_request(cb, now)
       IN  /\ cb' = r.cb
           /\ resp' = [resp EXCEPT ![t] = r.result]
           /\ pc' = [pc EXCEPT ![t] = IF r.result = Allowed THEN "inflight" ELSE "idle"]
           /\ nAllowed' = IF r.result = Allowed THEN nAllowed + 1 ELSE nAllowed
           /\ hoAllowed' =
                IF cb.state.tag = "HalfOpen" /\ r.result = Allowed
                THEN hoAllowed + 1
                ELSE IF r.cb.state.tag = "HalfOpen" THEN hoAllowed ELSE 0
           /\ run' = IF r.cb.state.tag = "Closed" THEN run ELSE 0
    /\ nChecks' = nChecks + 1
    /\ overlap' = (overlap \/ \E u \in Tasks : pc[u] = "inflight")
    /\ UNCHANGED <<now, nSuccess>>
    /\ UNCHANGED <<tbVars, fwVars, pxVars, tlsVars, lsVars>>
    /\ UNCHANGED <<wsVars, grpcVars, rlVars, wrrVars, acmeVars, lockVars>>
\* The upstream answered the request of task t; record_outcome runs.
RecordOutcome(t, ok) ==
    /\ pc[t] = "inflight"
    /\ cb' = cb_record_outcome(cb, ok, now)
    /\ pc' = [pc EXCEPT ![t] = "idle"]
    /\ hoAllowed' = IF cb'.state.tag = "HalfOpen" THEN hoAllowed ELSE 0
    /\ nSuccess' = IF ok THEN 1 ELSE nSuccess
    /\ run' = IF cb.state.tag = "Closed" /\ cb'.state.tag = "Closed" /\ ~ok
              THEN run + 1 ELSE 0
    /\ UNCHANGED <<now, resp, nChecks, nAllowed, overlap>>
    /\ UNCHANGED <<tbVars, fwVars, pxVars, tlsVars, lsVars>>
    /\ UNCHANGED <<wsVars, grpcVars, rlVars, wrrVars, acmeVars, lockVars>>
Tick ==
    /\ now < MaxTime
    /\ now' = now + 1
    /\ UNCHANGED cbVars
    /\ UNCHANGED <<tbVars, fwVars, pxVars, tlsVars, lsVars>>
    /\ UNCHANGED <<wsVars, grpcVars, rlVars, wrrVars, acmeVars, lockVars>>
NextCB ==
    \/ \E t \in Tasks : CheckRequest(t)
    \/ \E t \in Tasks : RecordOutcome(t, TRUE)
    \/ \E t \in Tasks : RecordOutcome(t, FALSE)
    \/ Tick

SpecCB == InitCB /\ [][NextCB]_vars

(***************************************************************************)
(* Claims about the circuit breaker (checked under SpecCB).                *)
(***************************************************************************)

\* C1: while the breaker is Open{opens_at} and now < opens_at, every
\* admission check is denied (503) and leaves the state Open with the same
\* opens_at: no request is admitted before now >= opens_at.
C1_OpenDeniesUntilOpensAt ==
    [][\A t \in Tasks :
          (CheckRequest(t) /\ cb.state.tag = "Open" /\ now < cb.state.opens_at)
          => (resp'[t] = Denial503 /\ pc'[t] = "idle" /\ cb' = cb)]_vars

\* C1 witness: a check was denied and the breaker is Open before opens_at.
C1_Witness ==
    /\ cb.state.tag = "Open"
    /\ now < cb.state.opens_at
    /\ \E t \in Tasks : resp[t] = Denial503 /\ pc[t] = "idle"

\* C2: once the breaker is HalfOpen, at most half_open_max_requests admission
\* checks are answered Allowed before it moves to Closed or Open.
C2_HalfOpenAdmitsAtMostMax ==
    cb.state.tag = "HalfOpen" => hoAllowed <= cb.half_open_max_requests

\* The step part of C3: a failure recorded in Closed that brings the run of
\* failures since the last recorded success up to the threshold opens the
\* breaker at that failure; a shorter run opens it only by the rate rule; a
\* recorded success leaves it Closed with the run reset to 0.
C3_Steps ==
    /\ \A t \in Tasks :
          (RecordOutcome(t, FALSE) /\ cb.state.tag = "Closed") =>
             LET f == cb.state.failures + 1
                 n == cb.state.total_requests + 1
                 byRate == n >= cb.min_requests_for_rate_calculation
                           /\ RateReached(cb, f, n)
             IN  /\ run + 1 >= cb.consecutive_failure_threshold
                       => cb'.state = StateOpen(now + cb.open_duration)
                 /\ (run + 1 < cb.consecutive_failure_threshold /\ ~byRate)
                       => (cb'.state.tag = "Closed"
                           /\ cb'.state.consecutive_failures = run + 1)
    /\ \A t \in Tasks :
          (RecordOutcome(t, TRUE) /\ cb.state.tag = "Closed") =>
             (cb'.state.tag = "Closed" /\ cb'.state.consecutive_failures = 0)

\* The scenario part of C3: threshold 3, every outcome a failure, requests
\* one after the other within the cooldown: requests 1-3 are admitted and
\* every later one is denied with 503.
C3_Scenario(pre) ==
    (/\ cb.consecutive_failure_threshold = 3
     /\ pre
     /\ nSuccess = 0
     /\ ~overlap
     /\ now < cb.open_duration)
    => /\ nAllowed = Min(nChecks, 3)
       /\ nChecks <= 3 => \A t \in Tasks : resp[t] # Denial503
       /\ nChecks > 3 => \E t \in Tasks : resp[t] = Denial503

\* C3 as stated: the scenario for any breaker with threshold 3, whatever its
\* request_volume_threshold and failure_threshold.
C3_AsStated == [][C3_Steps /\ C3_Scenario(TRUE)']_vars

\* C3 amended: the scenario holds when the failure-rate rule cannot fire
\* before the third failure (request_volume_threshold >= 3).
C3_ConsecutiveFailuresTrip ==
    [][C3_Steps /\ C3_Scenario(cb.min_requests_for_rate_calculation >= 3)']_vars

\* C3 witness: three sequential failures were admitted and recorded, the
\* breaker opened, and the fourth and fifth requests were denied.
C3_Witness ==
    /\ cb.consecutive_failure_threshold = 3
    /\ cb.min_requests_for_rate_calculation >= 3
    /\ nSuccess = 0 /\ ~overlap /\ now < cb.open_duration
    /\ nChecks = 5 /\ nAllowed = 3
    /\ cb.state.tag = "Open"
    /\ \E t \in Tasks : resp[t] = Denial503

\* C15: a failure recorded in Closed opens the breaker iff, counting that
\* failure, the consecutive-failure rule fires or total_requests >=
\* min_requests_for_rate_calculation and failures / total_requests >=
\* failure_rate_threshold; otherwise (in particular while total_requests is
\* below the minimum and the consecutive rule does not fire) it stays Closed
\* with the three counters incremented.
C15_RateRuleTrips ==
    [][\A t \in Tasks :
          (RecordOutcome(t, FALSE) /\ cb.state.tag = "Closed") =>
             LET f == cb.state.failures + 1
                 n == cb.state.total_requests + 1
                 c == cb.state.consecutive_failures + 1
                 byCount == c >= cb.consecutive_failure_threshold
                 byRate == /\ n >= cb.min_requests_for_rate_calculation
                           /\ f * cb.rate_den >= cb.rate_num * n
             IN  /\ (cb'.state.tag = "Open") <=> (byCount \/ byRate)
                 /\ (byCount \/ byRate) => cb'.state = StateOpen(now + cb.open_duration)
                 /\ ~(byCount \/ byRate) => cb'.state = StateClosed(f, n, c)
                 /\ (n < cb.min_requests_for_rate_calculation /\ ~byCount)
                       => cb'.state.tag = "Closed"]_vars

\* C15 witness: threshold 3 and minimum 3; three requests were admitted and
\* recorded, one of them a success, and the breaker is Open: the third
\* outcome was a failure that tripped it by the rate rule (2/3 >= 1/2) with
\* fewer than 3 consecutive failures.
C15_Witness ==
    /\ cb.consecutive_failure_threshold = 3
    /\ cb.min_requests_for_rate_calculation = 3
    /\ cb.state.tag = "Open"
    /\ nAllowed = 3 /\ nSuccess = 1
    /\ \A t \in Tasks : pc[t] = "idle"

\* C16: an admission check made on an Open breaker at now >= opens_at is
\* answered Allowed and leaves the breaker HalfOpen with success_probes = 0
\* and total_probes = 0, so no check made after opens_at leaves it Open.
C16_OpenToHalfOpen ==
    [][\A t \in Tasks :
          (CheckRequest(t) /\ cb.state.tag = "Open" /\ now >= cb.state.opens_at)
          => /\ resp'[t] = Allowed
             /\ pc'[t] = "inflight"
             /\ cb'.state = StateHalfOpen(0, 0)]_vars

\* C16 witness: the breaker is HalfOpen {0, 0}, the clock is exactly
\* open_duration after the only recorded failure and the latest check, made
\* at that instant, was admitted and is in flight.
C16_Witness ==
    /\ cb.state = StateHalfOpen(0, 0)
    /\ now = cb.open_duration
    /\ nSuccess = 0
    /\ nChecks = 2 /\ nAllowed = 2
    /\ \E t \in Tasks : pc[t] = "inflight" /\ resp[t] = Allowed

\* C17: an outcome recorded while HalfOpen moves the breaker to Closed with
\* failures, total_requests and consecutive_failures all 0 when it is a
\* success, and to Open with opens_at = now + open_duration when it is a
\* failure; it never leaves the breaker HalfOpen.
C17_HalfOpenOutcome ==
    [][\A t \in Tasks :
          /\ (RecordOutcome(t, TRUE) /\ cb.state.tag = "HalfOpen")
                => cb'.state = StateClosed(0, 0, 0)
          /\ (RecordOutcome(t, FALSE) /\ cb.state.tag = "HalfOpen")
                => cb'.state = StateOpen(now + cb.open_duration)]_vars

\* C17 witness: a probe failed at a time after the first cooldown: the
\* breaker is Open again until now + open_duration, no success was ever
\* recorded and two requests were admitted, the second one as a probe.
C17_Witness ==
    /\ cb.state.tag = "Open"
    /\ now >= cb.open_duration
    /\ cb.state.opens_at = now + cb.open_duration
    /\ nSuccess = 0
    /\ nChecks = 2 /\ nAllowed = 2
    /\ \A t \in Tasks : pc[t] = "idle"

(***************************************************************************)
(* middleware/rate_limit.rs: the scope of a limiter.                       *)
\* C36: in every reachable Closed state failures <= total_requests and
\* consecutive_failures <= failures, and, the consecutive threshold being at
\* least 1, consecutive_failures is below it.
C36_ClosedCounters ==
    cb.state.tag = "Closed" =>
        /\ cb.state.failures <= cb.state.total_requests
        /\ cb.state.consecutive_failures <= cb.state.failures
        /\ cb.consecutive_failure_threshold >= 1 =>
              cb.state.consecutive_failures < cb.consecutive_failure_threshold

\* C36 witness: a Closed breaker one failure short of its consecutive
\* threshold, after two successes and a failure.
C36_Witness ==
    /\ cb.consecutive_failure_threshold = 2
    /\ cb.state = StateClosed(1, 3, 1)

\* C37: an outcome recorded while the breaker is Open, success or failure,
\* leaves the breaker as it is, opens_at included.
C37_OutcomeWhileOpenIsNoOp ==
    [][\A t \in Tasks :
          (pc[t] = "inflight" /\ pc'[t] = "idle" /\ cb.state.tag = "Open") => cb' = cb]_vars

\* C37 witness: two requests were admitted by a Closed breaker with
\* consecutive threshold 1 and both failed; the first failure opened the
\* breaker at time 0, the second was recorded while it was Open, and it is
\* still Open until time 2 (= 0 + open_duration).
C37_Witness ==
    /\ cb.consecutive_failure_threshold = 1
    /\ cb.state = StateOpen(2)
    /\ now = 1
    /\ nAllowed = 2
    /\ nSuccess = 0
    /\ \A t \in Tasks : pc[t] = "idle"

(***************************************************************************)
\* A request as the limiters see it: the peer's IP (an IPv4 address, or a
\* textual form that is no IPv4 address) and the value of header "k", if any
\* ("non-ascii": a value holding a byte outside visible ASCII, which
\* HeaderValue::to_str rejects).
Ips == {"127.0.0.1", "10.0.0.2", "::1"}

IsIpv4(ip) == ip # "::1"

Requests == [ip : Ips, hdr : {"none", "a", "b", "non-ascii"}]

\* enum LimitLocation: IP(value) | Header(key "k", value) | Iprange(value);
\* net is the set of IPv4 addresses of the CIDR value, and cidr is whether the
\* value holds a '/'.
ScopeIP(v) == [kind |-> "IP", value |-> v]

ScopeHeader(v) == [kind |-> "Header", value |-> v]

ScopeIprange(cidr, net) ==
    [kind |-> "Iprange", cidr |-> cidr, net |-> net,
     value |-> IF cidr THEN "127.0.0.1/32" ELSE "127.0.0.1"]

\* LimitLocation::get_key (the header's key is "k")
get_key(scope) ==
    IF scope.kind = "Header" THEN "k:" \o scope.value ELSE scope.value

\* fn matched: "true" | "false" | "err"
matched(scope, req) ==
    CASE scope.kind = "IP" -> IF scope.value = req.ip THEN "true" ELSE "false"
      [] scope.kind = "Header" ->
            IF req.hdr = "none" THEN "false"
            ELSE IF req.hdr = "non-ascii" THEN "err"
            ELSE IF req.hdr = scope.value THEN "true" ELSE "false"
      [] scope.kind = "Iprange" ->
            IF ~scope.cidr THEN "err"
            ELSE IF ~IsIpv4(req.ip) THEN "err"
            ELSE IF req.ip \in scope.net THEN "true" ELSE "false"

\* TimeUnit::get_million_second / get_window_size_ms
MillionSecond == 1

Second == 1000

Minute == 60000

Hour == 3600000

Day == 86400000

(***************************************************************************)
(* 32-bit and 128-bit arithmetic of TokenBucketRateLimit::should_limit.    *)
(* The product elapsed_millis * rate_per_unit does not fit in 32 bits, so  *)
(* the u128 value is kept as little-endian limbs of 11 bits.               *)
(***************************************************************************)
MaxI32 == 2147483647

MinI32 == -2147483647 - 1

Limb == 2048

\* A u128 from a value below 2^31.
BigOf(n) == <<n % Limb, (n \div Limb) % Limb, n \div (Limb * Limb)>>

RECURSIVE BigCarry(_, _, _)
BigCarry(cols, k, c) ==
    IF k > Len(cols) THEN <<>>
    ELSE LET v == cols[k] + c
         IN  <<v % Limb>> \o BigCarry(cols, k + 1, v \div Limb)

\* u128 multiplication of two 3-limb values (no overflow below 2^62).
BigMul(a, b) ==
    LET col(k) == IF k = 1 THEN a[1] * b[1]
                  ELSE IF k = 2 THEN a[1] * b[2] + a[2] * b[1]
                  ELSE IF k = 3 THEN a[1] * b[3] + a[2] * b[2] + a[3] * b[1]
                  ELSE IF k = 4 THEN a[2] * b[3] + a[3] * b[2]
                  ELSE IF k = 5 THEN a[3] * b[3]
                  ELSE 0
    IN  BigCarry([k \in 1..6 |-> col(k)], 1, 0)

RECURSIVE BigDivFrom(_, _, _, _)
BigDivFrom(a, k, d, rem) ==
    IF k = 0 THEN <<>>
    ELSE LET v == rem * Limb + a[k]
         IN  BigDivFrom(a, k - 1, d, v % d) \o <<v \div d>>

\* u128 division by a divisor of at most 1000.
BigDivSmall(a, d) == BigDivFrom(a, Len(a), d, 0)

\* Division by the unit, as floor(floor(x / 1000) / 60 ...) = floor(x / unit).
UnitFactors(unit) ==
    CASE unit = MillionSecond -> <<>>
      [] unit = Second -> <<1000>>
      [] unit = Minute -> <<1000, 60>>
      [] unit = Hour -> <<1000, 60, 60>>
      [] unit = Day -> <<1000, 60, 60, 24>>

RECURSIVE BigDivAll(_, _, _)
BigDivAll(a, fs, i) ==
    IF i > Len(fs) THEN a ELSE BigDivAll(BigDivSmall(a, fs[i]), fs, i + 1)

BigIsZero(a) == \A k \in 1..Len(a) : a[k] = 0

\* `x as i32` of a u128: the low 32 bits, two's complement.
BigAsI32(a) ==
    LET top == a[3] % 1024
    IN  a[1] + a[2] * Limb + (IF top >= 512 THEN top - 1024 ELSE top) * (Limb * Limb)

\* a + b on i32: the sum if it fits, else "overflow".
I32AddFits(a, b) ==
    IF a >= 0 /\ b >= 0 THEN b <= MaxI32 - a
    ELSE IF a < 0 /\ b < 0 THEN b >= MinI32 - a
    ELSE TRUE

\* a + b on i32 with two's-complement wrap-around (a release build).
I32WrappingAdd(a, b) ==
    IF I32AddFits(a, b) THEN a + b
    ELSE IF a >= 0 THEN ((a + MinI32) + b) + MinI32
    ELSE (a - MinI32) + (b - MinI32)

\* tokens_to_add: (elapsed_millis * rate_per_unit as u128) / unit, as limbs.
tokens_to_add(elapsed_millis, rate_per_unit, unit) ==
    BigDivAll(BigMul(BigOf(elapsed_millis), BigOf(rate_per_unit)), UnitFactors(unit), 1)

(***************************************************************************)
(* TokenBucketRateLimit                                                    *)
(***************************************************************************)
\* struct TokenBucketRateLimit as deserialized at time t: current_count is
\* skipped (0) and last_update_time defaults to SystemTime::now().
TokenBucketRateLimit(rate, unit, capacity, scope, t) ==
    [rate_per_unit |-> rate, unit |-> unit, capacity |-> capacity, scope |-> scope,
     current_count |-> 0, last_update_time |-> t]

\* Ok(None) of should_limit: not limited.
OkNone == [kind |-> "OkNone"]

\* Ok(Some(headers)) of a token bucket: the X-RateLimit-* and Retry-After headers.
TokenBucketLimited(b) ==
    LET millis_for_one_token == b.unit \div b.rate_per_unit
    IN  [kind |-> "Limited",
         limit |-> b.capacity,
         remaining |-> 0,
         reset |-> (b.last_update_time + millis_for_one_token) \div 1000,
         retry_after |-> (millis_for_one_token + 999) \div 1000]

\* A duration_since that answers zero for an earlier clock.
saturating_duration_since(t, earlier) ==
    [ok |-> TRUE, millis |-> IF t < earlier THEN 0 ELSE t - earlier]

\* SystemTime::duration_since(earlier) of the clock reading t: Err when the
\* reading is earlier than `earlier`, else the elapsed milliseconds.
duration_since(t, earlier) ==
    IF t < earlier THEN [ok |-> FALSE, millis |-> 0]
    ELSE [ok |-> TRUE, millis |-> t - earlier]

\* fn TokenBucketRateLimit::should_limit at time t in build profile prof:
\* [result, tb] with result OkNone, Ok(Some(headers)), Err, or a panic
\* (arithmetic overflow with overflow checks on).
tb_should_limit(b, req, t, prof) ==
    LET m == matched(b.scope, req)
    IN  IF m = "err" THEN [result |-> ErrResult, tb |-> b]
        ELSE IF m = "false" THEN [result |-> OkNone, tb |-> b]
        ELSE IF ~duration_since(t, b.last_update_time).ok
        THEN [result |-> ErrResult, tb |-> b]
        ELSE
          LET add == tokens_to_add(duration_since(t, b.last_update_time).millis,
                                   b.rate_per_unit, b.unit)
              add32 == BigAsI32(add)
              refill == ~BigIsZero(add)
          IN  IF refill /\ prof = "debug" /\ ~I32AddFits(b.current_count, add32)
              THEN [result |-> PanicResult, tb |-> b]
              ELSE
                LET b1 == IF refill
                          THEN [b EXCEPT
                                  !.current_count =
                                      Min(I32WrappingAdd(b.current_count, add32), b.capacity),
                                  !.last_update_time = t]
                          ELSE b
                IN  IF b1.current_count > 0
                    THEN [result |-> OkNone,
                          tb |-> [b1 EXCEPT !.current_count = b1.current_count - 1]]
                    ELSE [result |-> TokenBucketLimited(b1), tb |-> b1]

\* The Denial of a rate limiter's check_request: 429 with the limiter's headers.
Denial429(h) ==
    [kind |-> "Denied", status |-> 429, body |-> "API rate limit exceeded",
     limit |-> h.limit, remaining |-> h.remaining, reset |-> h.reset,
     retry_after |-> h.retry_after]

\* impl Middleware for Arc<Mutex<Ratelimit>>: check_request on a token bucket.
\* self.lock()? fails on a poisoned mutex; a panic inside poisons it.
\* [result, tb, poisoned], result Allowed | the 429 Denial | Err | a panic.
tb_check_request(b, isPoisoned, req, t, prof) ==
    IF isPoisoned THEN [result |-> ErrResult, tb |-> b, poisoned |-> TRUE]
    ELSE LET r == tb_should_limit(b, req, t, prof)
         IN  [result |-> IF r.result = OkNone THEN Allowed
                         ELSE IF r.result.kind = "Limited" THEN Denial429(r.result)
                         ELSE r.result,
              tb |-> r.tb,
              poisoned |-> (r.result = PanicResult)]

\* The token buckets a configuration can declare (rate_per_unit >= 1,
\* capacity >= 0), loaded at time 0.
TokenBucketConfigs ==
    { TokenBucketRateLimit(1, Second, 2, ScopeIP("127.0.0.1"), 0),
      TokenBucketRateLimit(4, MillionSecond, 3, ScopeHeader("a"), 0),
      TokenBucketRateLimit(2, MillionSecond, 2, ScopeIprange(TRUE, {"127.0.0.1"}), 0),
      TokenBucketRateLimit(3, Minute, 1, ScopeIprange(FALSE, {}), 0) }

(***************************************************************************)
(* Bounds of the token-bucket runs: the calls made, the clock's range and  *)
(* the steps the clock advances by (LongIdle is 2^29 ms, about 6 days).    *)
(***************************************************************************)
MaxCalls == 4
MaxAdvances == 3
LongIdle == 536870912

TimeSteps == {500, 1000, LongIdle}

InitTB ==
    /\ NoBreaker
    /\ NoFixedWindow
    /\ NoListener
    /\ NoTls
    /\ NoAcceptLoop
    /\ NoEdge
    /\ now = 0
    /\ tb \in TokenBucketConfigs
    /\ build \in {"debug", "release"}
    /\ poisoned = FALSE
    /\ burst = <<>>
    /\ nCalls = 0
    /\ nMatched = 0
    /\ nAdv = 0
    /\ tbLock = 0 /\ tbTask = <<>> /\ tbStart = 0

\* A request reaches the limiter: check_request, one critical section.
TBCheckRequest(req) ==
    /\ nCalls < MaxCalls
    /\ LET r == tb_check_request(tb, poisoned, req, now, build)
           m == matched(tb.scope, req) = "true"
       IN  /\ tb' = r.tb
           /\ poisoned' = r.poisoned
           /\ burst' = IF m THEN Append(burst, r.result) ELSE burst
           /\ nMatched' = IF m THEN nMatched + 1 ELSE nMatched
    /\ nCalls' = nCalls + 1
    /\ UNCHANGED <<now, build, nAdv, tbLock, tbTask, tbStart>>
    /\ UNCHANGED <<cbVars, fwVars, pxVars, tlsVars, lsVars>>
    /\ UNCHANGED <<wsVars, grpcVars, rlVars, wrrVars, acmeVars, lockVars>>
\* The wall clock advances by d milliseconds.
Advance(d) ==
    /\ nAdv < MaxAdvances
    /\ now <= MaxI32 - d          \* the clock stays below 2^31 ms
    /\ now' = now + d
    /\ nAdv' = nAdv + 1
    /\ burst' = <<>>
    /\ UNCHANGED <<tb, build, poisoned, nCalls, nMatched, tbLock, tbTask, tbStart>>
    /\ UNCHANGED <<cbVars, fwVars, pxVars, tlsVars, lsVars>>
    /\ UNCHANGED <<wsVars, grpcVars, rlVars, wrrVars, acmeVars, lockVars>>
NextTB ==
    \/ \E req \in Requests : TBCheckRequest(req)
    \/ \E d \in TimeSteps : Advance(d)

SpecTB == InitTB /\ [][NextTB]_vars

(***************************************************************************)
(* Claims about the token bucket (checked under SpecTB).                   *)
(***************************************************************************)

\* C4: after any sequence of should_limit calls at non-decreasing times,
\* 0 <= current_count <= capacity.
C4_CountWithinCapacity == 0 <= tb.current_count /\ tb.current_count <= tb.capacity

\* C5: a bucket loaded with capacity 2, rate_per_unit 1, unit Second, scope
\* IP, whose first three matching requests arrive with no time elapsing
\* between them, allows the first two and denies the third with 429,
\* X-RateLimit-Remaining: 0 and Retry-After: 1.
C5_BurstOfThree ==
    (/\ tb.rate_per_unit = 1 /\ tb.unit = Second /\ tb.capacity = 2
     /\ tb.scope = ScopeIP("127.0.0.1")
     /\ nMatched = Len(burst)
     /\ Len(burst) >= 3)
    => /\ burst[1] = Allowed
       /\ burst[2] = Allowed
       /\ burst[3].kind = "Denied"
       /\ burst[3].status = 429 /\ burst[3].remaining = 0 /\ burst[3].retry_after = 1

\* The scope as a predicate on requests: the peer is the scope's IP, the
\* peer lies in the scope's range, or header "k" has the scope's value.
InScope(scope, req) ==
    CASE scope.kind = "IP" -> req.ip = scope.value
      [] scope.kind = "Header" -> req.hdr = scope.value
      [] scope.kind = "Iprange" -> req.ip \in scope.net

\* C19: when the scope of a limiter (an exact IP, a well-formed IPv4 CIDR
\* range, or a header name and value) does not match the request of an IPv4
\* peer, should_limit answers Ok(None), so the request is allowed, and
\* leaves current_count and last_update_time as they were.
C19_NoMatchIsNoOp ==
    [][\A req \in Requests :
          (/\ TBCheckRequest(req)
           /\ ~poisoned
           /\ IsIpv4(req.ip)
           /\ tb.scope.kind = "Iprange" => tb.scope.cidr
           /\ ~InScope(tb.scope, req))
          => /\ tb_should_limit(tb, req, now, build).result = OkNone
             /\ tb' = tb]_vars

\* The value of the limbs a is at least n (0 <= n < 2^22).
BigAtLeast(a, n) == (\E k \in 3..Len(a) : a[k] > 0) \/ a[1] + a[2] * Limb >= n

\* min(capacity, count + a) over the integers, for 0 <= count.
RefilledCount(count, a, capacity) ==
    IF BigIsZero(a) THEN count
    ELSE IF capacity <= count \/ BigAtLeast(a, capacity - count) THEN capacity
    ELSE count + a[1] + a[2] * Limb

\* C28: on each matching token-bucket call (the bucket holding a count
\* within 0..capacity), tokens_to_add = floor(elapsed_ms * rate_per_unit /
\* unit_ms); if it is positive current_count becomes min(capacity,
\* current_count + tokens_to_add) and last_update_time becomes now, otherwise
\* both stay; then the call is allowed and takes exactly one token iff
\* current_count > 0, and is otherwise denied with current_count unchanged.
C28_RefillThenConsume ==
    [][\A req \in Requests :
          (/\ TBCheckRequest(req)
           /\ ~poisoned
           /\ matched(tb.scope, req) = "true"
           /\ now >= tb.last_update_time
           /\ tb.current_count >= 0)
          => LET toks == tokens_to_add(now - tb.last_update_time, tb.rate_per_unit, tb.unit)
                 count == RefilledCount(tb.current_count, toks, tb.capacity)
                 answer == burst'[Len(burst')]
             IN  /\ tb'.last_update_time =
                        IF BigIsZero(toks) THEN tb.last_update_time ELSE now
                 /\ IF count > 0
                    THEN answer = Allowed /\ tb'.current_count = count - 1
                    ELSE answer.kind = "Denied" /\ tb'.current_count = count]_vars

\* C38: for any elapsed time, a matching call with tokens_to_add > 0 (on a
\* bucket holding a count within 0..capacity) neither panics nor wraps: it
\* leaves current_count at min(capacity, current_count + tokens_to_add),
\* computed over the integers, less the one token the call consumes.
C38_RefillSaturates ==
    [][\A req \in Requests :
          (/\ TBCheckRequest(req)
           /\ ~poisoned
           /\ matched(tb.scope, req) = "true"
           /\ now >= tb.last_update_time
           /\ tb.current_count >= 0
           /\ ~BigIsZero(tokens_to_add(now - tb.last_update_time, tb.rate_per_unit, tb.unit)))
          => LET toks == tokens_to_add(now - tb.last_update_time, tb.rate_per_unit, tb.unit)
                 count == RefilledCount(tb.current_count, toks, tb.capacity)
             IN  /\ ~poisoned'
                 /\ tb'.current_count = IF count > 0 THEN count - 1 ELSE count]_vars

(***************************************************************************)
(* Concurrent check_request calls on one token bucket.  Each connection    *)
(* task calls check_request on its clone of the Arc<Mutex<Ratelimit>>:     *)
(* self.lock(), then should_limit, which reads current_count and writes    *)
(* it back one lower, then the guard is dropped on return.  The calls      *)
(* arrive in one burst at time Minute, right after a refill, so none of    *)
(* them refills.                                                           *)
(***************************************************************************)
NumBucketTasks == 3

BucketTasks == 1..NumBucketTasks

\* A lock() that hands the mutex out while another task holds it.
mutex_lock_unguarded(holder) == TRUE

\* self.lock() on the std Mutex: returns once no task holds the guard.
mutex_lock(holder) == holder = 0

\* A bucket in the middle of a burst at time t: refilled at t, with count
\* tokens left of its capacity.
BucketInBurst(b, count, t) == [b EXCEPT !.current_count = count, !.last_update_time = t]

\* The requests of the burst: for every scope some match, some do not, and
\* some carry a header value that cannot be read.
BurstRequests == {req \in Requests : req.ip # "::1" /\ req.hdr # "b"}

IdleCall == [pc |-> "idle", req |-> <<>>, view |-> <<>>, result |-> NoResult]

InitBucketTasks ==
    /\ NoBreaker
    /\ NoFixedWindow
    /\ NoListener
    /\ NoTls
    /\ NoAcceptLoop
    /\ NoEdge
    /\ now = Minute
    /\ \E b \in TokenBucketConfigs : \E count \in 0..(b.capacity - 1) :
           /\ tb = BucketInBurst(b, count, Minute)
           /\ tbStart = count
    /\ build \in {"debug", "release"}
    /\ poisoned = FALSE
    /\ burst = <<>>
    /\ nCalls = 0
    /\ nMatched = 0
    /\ nAdv = 0
    /\ tbLock = 0
    /\ tbTask = [t \in BucketTasks |-> IdleCall]

\* check_request of task t with request req: self.lock() returns the guard.
BucketLock(t, req) ==
    /\ tbTask[t].pc = "idle"
    /\ ~poisoned
    /\ mutex_lock(tbLock)
    /\ tbLock' = t
    /\ tbTask' = [tbTask EXCEPT ![t].pc = "locked", ![t].req = req]
    /\ nCalls' = nCalls + 1
    /\ UNCHANGED <<now, tb, build, poisoned, burst, nMatched, nAdv, tbStart>>
    /\ UNCHANGED <<cbVars, fwVars, pxVars, tlsVars, lsVars>>
    /\ UNCHANGED <<wsVars, grpcVars, rlVars, wrrVars, acmeVars, lockVars>>

\* should_limit of task t reads the bucket through its guard.
BucketRead(t) ==
    /\ tbTask[t].pc = "locked"
    /\ tbTask' = [tbTask EXCEPT ![t].pc = "read", ![t].view = tb]
    /\ UNCHANGED <<now, tb, build, poisoned, burst, nCalls, nMatched, nAdv, tbLock, tbStart>>
    /\ UNCHANGED <<cbVars, fwVars, pxVars, tlsVars, lsVars>>
    /\ UNCHANGED <<wsVars, grpcVars, rlVars, wrrVars, acmeVars, lockVars>>

\* should_limit of task t decides on what it read, writes the bucket back,
\* and check_request returns its CheckResult, dropping the guard.
BucketWriteReturn(t) ==
    /\ tbTask[t].pc = "read"
    /\ LET r == tb_check_request(tbTask[t].view, poisoned, tbTask[t].req, now, build)
           m == matched(tb.scope, tbTask[t].req) = "true"
       IN  /\ tb' = r.tb
           /\ poisoned' = r.poisoned
           /\ tbTask' = [tbTask EXCEPT ![t].pc = "done", ![t].result = r.result]
           /\ burst' = IF m THEN Append(burst, r.result) ELSE burst
           /\ nMatched' = IF m THEN nMatched + 1 ELSE nMatched
    /\ tbLock' = 0
    /\ UNCHANGED <<now, build, nCalls, nAdv, tbStart>>
    /\ UNCHANGED <<cbVars, fwVars, pxVars, tlsVars, lsVars>>
    /\ UNCHANGED <<wsVars, grpcVars, rlVars, wrrVars, acmeVars, lockVars>>

NextBucketTasks ==
    \/ \E t \in BucketTasks : \E req \in BurstRequests : BucketLock(t, req)
    \/ \E t \in BucketTasks : BucketRead(t)
    \/ \E t \in BucketTasks : BucketWriteReturn(t)

SpecBucketTasks == InitBucketTasks /\ [][NextBucketTasks]_vars

\* The matching calls of the burst that were answered Allowed.
AllowedInBurst == Len(SelectSeq(burst, LAMBDA res : res = Allowed))

\* C34: concurrent check_request calls on one token bucket are serialised
\* by its mutex: at most one call is between lock() and its return, and in
\* every interleaving of a burst without refill the matching calls answered
\* Allowed number at most current_count at the start of the burst; once no
\* call is inside, the bucket holds exactly the start count less the calls
\* allowed, so no token is spent twice.
C34_NoTokenSpentTwice ==
    /\ Cardinality({t \in BucketTasks : tbTask[t].pc \in {"locked", "read"}}) <= 1
    /\ AllowedInBurst <= tbStart
    /\ (\A t \in BucketTasks : tbTask[t].pc \in {"idle", "done"}) =>
           tb.current_count = tbStart - AllowedInBurst

\* Three matching calls raced for two tokens: two were allowed, one denied.
C34_Witness ==
    /\ tbStart = 2
    /\ \A t \in BucketTasks : tbTask[t].pc = "done"
    /\ nMatched = NumBucketTasks
    /\ AllowedInBurst = 2
    /\ \E t \in BucketTasks : tbTask[t].result.kind = "Denied"
    /\ tb.current_count = 0

(***************************************************************************)
(* middleware/rate_limit.rs: FixedWindowRateLimit.                         *)
(***************************************************************************)
DEFAULT_FIXEDWINDOW_MAP_SIZE == 3

get_window_size_ms(unit) == unit

get_window_start_ms(unit, t) == (t \div get_window_size_ms(unit)) * get_window_size_ms(unit)

\* fn get_time_key: the decimal text of the window number.
get_time_key(unit, t) ==
    ToString(IF unit = MillionSecond
             THEN get_window_start_ms(unit, t)
             ELSE get_window_start_ms(unit, t) \div get_window_size_ms(unit))

\* count_map is a function from keys to counters; it starts empty (serde skip).
FixedWindowRateLimit(rate, unit, scope) ==
    [rate_per_unit |-> rate, unit |-> unit, scope |-> scope, count_map |-> <<>>]

MapRemove(m, k) == [x \in (DOMAIN m) \ {k} |-> m[x]]

MapPut(m, k, v) == [x \in (DOMAIN m) \cup {k} |-> IF x = k THEN v ELSE m[x]]

needs_eviction_off_by_one(m) == Cardinality(DOMAIN m) > DEFAULT_FIXEDWINDOW_MAP_SIZE

\* count_map.len() >= DEFAULT_FIXEDWINDOW_MAP_SIZE
needs_eviction(m) == Cardinality(DOMAIN m) >= DEFAULT_FIXEDWINDOW_MAP_SIZE

\* The keys count_map.keys().next() may yield: any key of the map, the
\* iteration order of a HashMap being unspecified.
Victims(m) == IF needs_eviction(m) /\ DOMAIN m # {} THEN DOMAIN m ELSE {""}

FixedWindowLimited(f, t) ==
    LET reset_secs == (get_window_start_ms(f.unit, t) + get_window_size_ms(f.unit)) \div 1000
        now_secs   == t \div 1000
        left       == IF reset_secs >= now_secs THEN reset_secs - now_secs ELSE 0
    IN  [kind |-> "Limited", limit |-> f.rate_per_unit, remaining |-> 0,
         reset |-> reset_secs, retry_after |-> IF left >= 1 THEN left ELSE 1]

\* FixedWindowRateLimit::should_limit at time t, victim being the key that
\* keys().next() yields if an entry is evicted: [result, fw]
fw_should_limit(f, req, t, victim) ==
    LET m == matched(f.scope, req) IN
    IF m = "err" THEN [result |-> ErrResult, fw |-> f]
    ELSE IF m = "false" THEN [result |-> OkNone, fw |-> f]
    ELSE
      LET key     == get_key(f.scope) \o ":" \o get_time_key(f.unit, t)
          kept    == IF needs_eviction(f.count_map) /\ victim \in DOMAIN f.count_map
                     THEN MapRemove(f.count_map, victim) ELSE f.count_map
          counter == (IF key \in DOMAIN kept THEN kept[key] ELSE 0) + 1
          f2      == [f EXCEPT !.count_map = MapPut(kept, key, counter)]
      IN  IF f.rate_per_unit - counter >= 0
          THEN [result |-> OkNone, fw |-> f2]
          ELSE [result |-> FixedWindowLimited(f, t), fw |-> f2]

FixedWindowConfigs ==
    { FixedWindowRateLimit(1, Second, ScopeIP("127.0.0.1")),
      FixedWindowRateLimit(2, Second, ScopeHeader("a")),
      FixedWindowRateLimit(1, MillionSecond, ScopeIprange(TRUE, {"127.0.0.1"})) }

MaxFwCalls == 6
MaxFwAdvances == 4

FwSteps == {400, 1000}

InitFW ==
    /\ NoBreaker
    /\ NoTokenBucket
    /\ NoListener
    /\ NoTls
    /\ NoAcceptLoop
    /\ NoEdge
    /\ now = 0
    /\ fw \in FixedWindowConfigs
    /\ fwLast = NoResult
    /\ fwWin = ""
    /\ fwAllowed = 0
    /\ fwEvicted = 0
    /\ fwCalls = 0
    /\ fwAdv = 0

\* A request reaches the limiter: should_limit, one critical section.
FWCheckRequest(req) ==
    /\ fwCalls < MaxFwCalls
    /\ \E victim \in Victims(fw.count_map) :
         LET r == fw_should_limit(fw, req, now, victim)
             m == matched(fw.scope, req) = "true"
             k == get_time_key(fw.unit, now)
             a == IF r.result = OkNone THEN 1 ELSE 0
         IN  /\ fw' = r.fw
             /\ fwLast' = r.result
             /\ fwWin' = IF m THEN k ELSE fwWin
             /\ fwAllowed' = IF ~m THEN fwAllowed
                             ELSE IF k = fwWin THEN fwAllowed + a ELSE a
             /\ fwEvicted' = fwEvicted + Cardinality(DOMAIN fw.count_map \ DOMAIN r.fw.count_map)
    /\ fwCalls' = fwCalls + 1
    /\ UNCHANGED <<now, fwAdv>>
    /\ UNCHANGED <<cbVars, tbVars, pxVars, tlsVars, lsVars>>
    /\ UNCHANGED <<wsVars, grpcVars, rlVars, wrrVars, acmeVars, lockVars>>
\* The wall clock advances by d milliseconds.
FWAdvance(d) ==
    /\ fwAdv < MaxFwAdvances
    /\ now' = now + d
    /\ fwAdv' = fwAdv + 1
    /\ UNCHANGED <<fw, fwLast, fwWin, fwAllowed, fwEvicted, fwCalls>>
    /\ UNCHANGED <<cbVars, tbVars, pxVars, tlsVars, lsVars>>
    /\ UNCHANGED <<wsVars, grpcVars, rlVars, wrrVars, acmeVars, lockVars>>
NextFW ==
    \/ \E req \in Requests : FWCheckRequest(req)
    \/ \E d \in FwSteps : FWAdvance(d)

SpecFW == InitFW /\ [][NextFW]_vars

(***************************************************************************)
(* Claims about the fixed window (checked under SpecFW).                   *)
(***************************************************************************)

\* C6: within any single window a FixedWindow limiter answers Ok(None) to at
\* most rate_per_unit matching requests, whatever count_map already holds.
C6_AtMostRatePerWindow == fwAllowed <= fw.rate_per_unit

\* C7: after any sequence of requests across any number of windows,
\* count_map holds at most 3 entries.
C7_CountMapAtMostThree == Cardinality(DOMAIN fw.count_map) <= 3

C7_Witness == Cardinality(DOMAIN fw.count_map) = 3 /\ fwEvicted > 0

\* The times the clock of the fixed-window runs can show.
FwTimes ==
    {400 * a + 1000 * b : a \in 0..MaxFwAdvances, b \in 0..MaxFwAdvances} \cap
    0..(1000 * MaxFwAdvances)

\* The key under which limiter f counts a request arriving at time t.
FwKey(f, t) == get_key(f.scope) \o ":" \o get_time_key(f.unit, t)

\* The entry of f.count_map inserted first: the clock never runs backwards,
\* so it is the entry of the earliest window.
OldestKey(f) ==
    LET held == {t \in FwTimes : FwKey(f, t) \in DOMAIN f.count_map}
    IN  FwKey(f, CHOOSE t \in held : \A u \in held : t <= u)

\* The entries of f.count_map that a call at time t which left g removed:
\* those gone, and the current window's entry if its counter started afresh.
FwRemoved(f, g, t) ==
    {k \in DOMAIN f.count_map :
        \/ k \notin DOMAIN g.count_map
        \/ k = FwKey(f, t) /\ g.count_map[k] # f.count_map[k] + 1}

\* C29: a fixed-window call removes an entry of count_map only when the map
\* already holds 3 entries and the key of the current request is not yet in
\* it; the entry removed is the oldest by insertion, and the entry of the
\* window being counted is never removed.
C29_EvictsOnlyOldestWhenFull ==
    [][\A req \in Requests :
          FWCheckRequest(req) /\ matched(fw.scope, req) = "true" =>
              LET removed == FwRemoved(fw, fw', now)
              IN  /\ FwKey(fw, now) \notin removed
                  /\ removed # {} =>
                        /\ Cardinality(DOMAIN fw.count_map) = DEFAULT_FIXEDWINDOW_MAP_SIZE
                        /\ FwKey(fw, now) \notin DOMAIN fw.count_map
                        /\ removed = {OldestKey(fw)}]_vars

(***************************************************************************)
(* vojo/matcher.rs, vojo/app_config.rs: routes and their matchers.         *)
(***************************************************************************)
\* Paths are sequences of characters.
PathA == <<"/", "a">>

PathA1 == <<"/", "a", "/", "1">>

PathB == <<"/", "b">>

\* A request as proxy() sees it: the URI's path (has_path is FALSE for a URI
\* without path_and_query), the method, the peer's IP, header "k" (hdr),
\* header "x-api-key" (key), whether it carries Connection and
\* Sec-WebSocket-Key (ws), and which of Origin and
\* Access-Control-Request-Method it carries (cors: "none" | "origin" | "both").
ProxyRequest(path, method, ip, hdr, key, ws) ==
    [has_path |-> TRUE, path |-> path, method |-> method, ip |-> ip, hdr |-> hdr,
     key |-> key, ws |-> ws, cors |-> "none"]

\* The same request carrying the CORS request headers.
WithCors(req, cors) == [req EXCEPT !.cors = cors]

ProxyRequests ==
    { ProxyRequest(PathA1, "GET", "127.0.0.1", "none", "good", FALSE),
      ProxyRequest(PathA1, "GET", "127.0.0.1", "none", "bad", FALSE),
      ProxyRequest(PathA1, "POST", "127.0.0.1", "none", "good", FALSE),
      ProxyRequest(PathA, "POST", "10.0.0.2", "a", "none", FALSE),
      ProxyRequest(PathA, "GET", "127.0.0.1", "a", "good", TRUE),
      ProxyRequest(PathB, "GET", "127.0.0.1", "a", "good", FALSE),
      ProxyRequest(PathB, "GET", "127.0.0.1", "none", "good", FALSE),
      WithCors(ProxyRequest(PathA, "OPTIONS", "127.0.0.1", "none", "none", FALSE), "both"),
      WithCors(ProxyRequest(PathB, "OPTIONS", "127.0.0.1", "none", "none", FALSE), "both"),
      WithCors(ProxyRequest(PathA, "OPTIONS", "127.0.0.1", "none", "none", FALSE), "origin"),
      [has_path |-> FALSE, path |-> <<>>, method |-> "CONNECT", ip |-> "127.0.0.1",
       hdr |-> "none", key |-> "good", ws |-> FALSE, cors |-> "none"] }

NoRequest ==
    [has_path |-> FALSE, path |-> <<>>, method |-> "", ip |-> "", hdr |-> "none",
     key |-> "none", ws |-> FALSE, cors |-> "none"]

starts_with(path, value) ==
    Len(value) <= Len(path) /\ SubSeq(path, 1, Len(value)) = value

\* enum MatcherRule: Path{value, match_type Prefix | Exact}, Method{values},
\* Header{name "k", value}, the header's pattern being the anchored literal.
MatcherPath(value, match_type) == [kind |-> "Path", value |-> value, match_type |-> match_type]

MatcherMethod(values) == [kind |-> "Method", values |-> values]

MatcherHeader(value) == [kind |-> "Header", value |-> value]

\* MatcherRule::matches
matches(rule, req) ==
    CASE rule.kind = "Path" ->
            IF rule.match_type = "Prefix" THEN starts_with(req.path, rule.value)
            ELSE req.path = rule.value
      [] rule.kind = "Method" -> req.method \in rule.values
      [] rule.kind = "Header" -> req.hdr # "none" /\ req.hdr = rule.value

match_and_rewrite_any(route, req) ==
    IF \E i \in 1..Len(route.matchers) : matches(route.matchers[i], req)
    THEN [some |-> TRUE, rest_path |-> req.path]
    ELSE [some |-> FALSE, rest_path |-> <<>>]

\* RouteConfig::match_and_rewrite without path_rewrite: Some(path) iff every
\* matcher of the route matches.
match_and_rewrite(route, req) ==
    IF \A i \in 1..Len(route.matchers) : matches(route.matchers[i], req)
    THEN [some |-> TRUE, rest_path |-> req.path]
    ELSE [some |-> FALSE, rest_path |-> <<>>]

(***************************************************************************)
(* middleware/middlewares.rs: the middlewares of a route.                  *)
(***************************************************************************)
\* enum MiddleWares: Authentication (ApiKey on header "x-api-key"),
\* RateLimit (a token bucket behind Arc<Mutex<..>>), CircuitBreaker (behind
\* Arc<Mutex<..>>), Headers (no check of its own).
MwAuthentication(value) == [kind |-> "Authentication", value |-> value]

MwRateLimit(limiter) == [kind |-> "RateLimit", limiter |-> limiter, poisoned |-> FALSE]

MwCircuitBreaker(breaker) == [kind |-> "CircuitBreaker", breaker |-> breaker]

MwHeaders == [kind |-> "Headers"]

\* struct CorsConfig: allowed_origins ("*" for All, else the origin),
\* allowed_methods, allowed_headers (<<>> for None), allow_credentials
\* ("none" | "true" | "false"), max_age (0 for None).
CorsConfig(origins, methods, headers, credentials, max_age) ==
    [allowed_origins |-> origins, allowed_methods |-> methods,
     allowed_headers |-> headers, allow_credentials |-> credentials,
     max_age |-> max_age]

MwCors(cors) == [kind |-> "Cors", cors |-> cors]

NoCors == [kind |-> "None"]

\* SpireContext::cors_configed: the first Cors middleware of the route.
cors_configed(mws) ==
    LET S == { i \in 1..Len(mws) : mws[i].kind = "Cors" }
    IN  IF S = {} THEN NoCors
        ELSE [kind |-> "Some", cors |-> mws[CHOOSE i \in S : \A k \in S : i <= k].cors]

\* CorsConfig::validate_origin: what it may answer for an origin.
validate_origin(cors, origin) == {"true", "false"}

\* Vec<&str>::join(", ")
RECURSIVE JoinComma(_)
JoinComma(strs) ==
    IF Len(strs) = 0 THEN ""
    ELSE IF Len(strs) = 1 THEN strs[1]
    ELSE strs[1] \o ", " \o JoinComma(Tail(strs))

\* ApiKeyAuth::check_authentication
check_authentication(mw, req) ==
    IF req.key = "none" THEN FALSE ELSE req.key = mw.value

Denial401 == [kind |-> "Denied", status |-> 401, body |-> "Authentication failed"]

\* Middleware for Authentication: check_request
auth_check_request(mw, req) ==
    IF ~check_authentication(mw, req) THEN Denial401 ELSE Allowed

\* The limiter (breaker) behind the middleware's Arc<Mutex<..>> after a check
\* that answered r.
rate_limit_checked(mw, r) ==
    [result |-> r.result, mw |-> [mw EXCEPT !.limiter = r.tb, !.poisoned = r.poisoned]]

circuit_breaker_checked(mw, r) ==
    [result |-> r.result, mw |-> [mw EXCEPT !.breaker = r.cb]]

\* Middleware for MiddleWares: check_request -> [result, mw]
mw_check_request(mw, req, t) ==
    CASE mw.kind = "RateLimit" ->
            rate_limit_checked(mw, tb_check_request(mw.limiter, mw.poisoned, req, t,
                                                    "release"))
      [] mw.kind = "Authentication" ->
            [result |-> auth_check_request(mw, req), mw |-> mw]
      [] mw.kind = "CircuitBreaker" ->
            circuit_breaker_checked(mw, cb_check_request(mw.breaker, t))
      [] OTHER -> [result |-> Allowed, mw |-> mw]

\* Middleware for MiddleWares: record_outcome; ok is whether the result is a
\* response with a 2xx status.
mw_record_outcome(mw, ok, t) ==
    IF mw.kind = "CircuitBreaker"
    THEN [mw EXCEPT !.breaker = cb_record_outcome(mw.breaker, ok, t)]
    ELSE mw

RECURSIVE is_allowed_every_from(_, _, _, _, _, _)
is_allowed_every_next(mws, i, req, t, log, first, r) ==
    is_allowed_every_from([mws EXCEPT ![i] = r.mw], i + 1, req, t,
                          Append(log, [mw |-> i, result |-> r.result.kind]),
                          IF first = Allowed THEN r.result ELSE first)

is_allowed_every_from(mws, i, req, t, log, first) ==
    IF i > Len(mws) THEN [result |-> first, mws |-> mws, log |-> log]
    ELSE is_allowed_every_next(mws, i, req, t, log, first,
                               mw_check_request(mws[i], req, t))

is_allowed_every(mws, req, t) == is_allowed_every_from(mws, 1, req, t, <<>>, Allowed)

\* RouteConfig::is_allowed from middleware i on; is_allowed_next is the body
\* of the loop once check_request on middleware i answered r.
RECURSIVE is_allowed_from(_, _, _, _, _)
is_allowed_next(mws, i, req, t, log, r) ==
    IF r.result = Allowed
    THEN is_allowed_from([mws EXCEPT ![i] = r.mw], i + 1, req, t,
                         Append(log, [mw |-> i, result |-> r.result.kind]))
    ELSE [result |-> r.result, mws |-> [mws EXCEPT ![i] = r.mw],
          log |-> Append(log, [mw |-> i, result |-> r.result.kind])]

is_allowed_from(mws, i, req, t, log) ==
    IF i > Len(mws) THEN [result |-> Allowed, mws |-> mws, log |-> log]
    ELSE is_allowed_next(mws, i, req, t, log, mw_check_request(mws[i], req, t))

\* RouteConfig::is_allowed: check_request on each middleware in order, up to
\* the first result that is not Allowed. log lists the calls made.
is_allowed(mws, req, t) == is_allowed_from(mws, 1, req, t, <<>>)

\* struct RouteConfig: matchers, middlewares, and the kind of destination its
\* router yields.
RouteConfig(matchers, middlewares, router) ==
    [matchers |-> matchers, middlewares |-> middlewares, router |-> router]

\* CommonCheckRequest::get_destination once route i matched and is_allowed
\* answered a: [kind, route, denial, routes, consulted, log]
route_checked(rs, i, consulted, a) ==
    [kind |-> IF a.result.kind \in {"Err", "Panic"} THEN "Err"
              ELSE IF a.result # Allowed THEN "NotAllowed"
              ELSE "Matched",
     route |-> i,
     denial |-> IF a.result.kind = "Denied" THEN a.result ELSE Allowed,
     routes |-> [rs EXCEPT ![i].middlewares = a.mws],
     consulted |-> consulted,
     log |-> a.log]

\* CommonCheckRequest::get_destination from route i on, under the AppConfig
\* lock.
RECURSIVE get_destination_from(_, _, _, _, _)
get_destination_from(rs, i, req, t, consulted) ==
    IF i > Len(rs)
    THEN [kind |-> "NoMatchFound", route |-> 0, denial |-> Allowed, routes |-> rs,
          consulted |-> consulted, log |-> <<>>]
    ELSE IF ~match_and_rewrite(rs[i], req).some
    THEN get_destination_from(rs, i + 1, req, t, Append(consulted, i))
    ELSE route_checked(rs, i, Append(consulted, i),
                       is_allowed(rs[i].middlewares, req, t))

get_destination(rs, req, t) ==
    IF ~req.has_path
    THEN [kind |-> "Err", route |-> 0, denial |-> Allowed, routes |-> rs,
          consulted |-> <<>>, log |-> <<>>]
    ELSE get_destination_from(rs, 1, req, t, <<>>)

(***************************************************************************)
(* proxy/http1/http_proxy.rs: proxy() and proxy_adapter_with_error().      *)
(***************************************************************************)
MaxRequests == 2
MaxProxyTime == 1

\* Two connection tasks of the listener, each serving one request at a time.
Conns == {1, 2}

Response(status, body, headers) == [status |-> status, body |-> body, headers |-> headers]

NoResponse == Response(0, "", <<>>)

\* response.headers_mut().extend(denial.headers)
DenialHeaders(d) == [f \in (DOMAIN d) \ {"kind", "status", "body"} |-> d[f]]

DenialResponse(d) == Response(d.status, d.body, DenialHeaders(d))

NotFoundResponse == Response(404, "Not Found", <<>>)

\* proxy_adapter_with_error: an Err of proxy() becomes 500 with the envelope
\* {"response_code": -1, "response_object": <message>}.
ErrorResponse == Response(500, "response_code -1", <<>>)

\* CommonCheckRequest::handle_preflight(cors_config, origin), valid being
\* the answer of cors_config.validate_origin(""): 403 with an empty body when
\* it is true, else 204 with the CORS response headers.
handle_preflight(cors, origin, valid) ==
    IF valid = "true" THEN Response(403, "", <<>>)
    ELSE Response(204, "",
           [access_control_allow_methods |-> JoinComma(cors.allowed_methods),
            access_control_allow_headers |-> JoinComma(cors.allowed_headers),
            access_control_allow_origin |-> origin,
            vary |-> "Origin",
            access_control_allow_credentials |->
                IF cors.allow_credentials = "true" THEN "true" ELSE "absent",
            access_control_max_age |->
                IF cors.max_age = 0 THEN "absent" ELSE ToString(cors.max_age)])

\* proxy(): the request is OPTIONS with Origin and Access-Control-Request-Method.
is_preflight(req) == req.method = "OPTIONS" /\ req.cors = "both"

\* What the awaited upstream call yields: a response, a transport error, or
\* the timeout elapsing.
UpstreamOutcomes ==
    { [kind |-> "Ok", status |-> 200], [kind |-> "Ok", status |-> 204],
      [kind |-> "Ok", status |-> 301], [kind |-> "Ok", status |-> 503],
      [kind |-> "Err", status |-> 0], [kind |-> "Timeout", status |-> 0] }

UpgradeOutcomes ==
    { [kind |-> "Ok", status |-> 101], [kind |-> "Ok", status |-> 403],
      [kind |-> "Timeout", status |-> 0] }

FileStatuses == {200, 404}

\* A success test that also accepts redirections (status < 400).
is_success_below_400(res) == res.kind = "Ok" /\ res.status >= 200 /\ res.status < 400

\* record_outcome's `Ok(response) if response.status().is_success()`.
is_success(res) == res.kind = "Ok" /\ res.status >= 200 /\ res.status < 300

\* The calls of the first loop of handle_before_response, in order.
record_outcome_calls(mws) ==
    [i \in 1..Len(mws) |-> [op |-> "record_outcome", mw |-> i]]

\* The calls of its second loop: `if let Ok(ref mut r) = response`.
handle_response_calls(mws, res) ==
    IF res.kind = "Ok"
    THEN [i \in 1..Len(mws) |-> [op |-> "handle_response", mw |-> i]]
    ELSE <<>>

\* One loop that calls record_outcome and then handle_response on each
\* middleware in turn.
handle_before_response_one_loop(mws, res, t) ==
    [mws |-> [i \in 1..Len(mws) |-> mw_record_outcome(mws[i], is_success(res), t)],
     recorded |-> [i \in 1..Len(mws) |-> i],
     calls |-> [k \in 1..(IF res.kind = "Ok" THEN 2 * Len(mws) ELSE Len(mws)) |->
                  IF res.kind = "Ok"
                  THEN [op |-> IF k % 2 = 1 THEN "record_outcome" ELSE "handle_response",
                        mw |-> (k + 1) \div 2]
                  ELSE [op |-> "record_outcome", mw |-> k]]]

\* CommonCheckRequest::handle_before_response: record_outcome on every
\* middleware in order, then, for a response, handle_response on every
\* middleware in order (it changes no state of the model):
\* [mws, recorded, calls]
handle_before_response(mws, res, t) ==
    [mws |-> [i \in 1..Len(mws) |-> mw_record_outcome(mws[i], is_success(res), t)],
     recorded |-> [i \in 1..Len(mws) |-> i],
     calls |-> record_outcome_calls(mws) \o handle_response_calls(mws, res)]

ProxyBreaker == CircuitBreaker(1, 2, 1, 1, 1, 3)

ProxyBucket == TokenBucketRateLimit(1, MillionSecond, 1, ScopeIP("127.0.0.1"), 0)

\* A bucket loaded before the wall clock was set back: its last_update_time
\* is ahead of the clock until the clock has caught up.
SetBackBucket ==
    TokenBucketRateLimit(1, MillionSecond, 1, ScopeIP("127.0.0.1"), MaxProxyTime)

ListenerConfigs ==
    { << RouteConfig(<<MatcherPath(PathA1, "Exact"), MatcherMethod({"GET"})>>,
                     <<MwAuthentication("good"), MwRateLimit(ProxyBucket),
                       MwCircuitBreaker(ProxyBreaker)>>, "Http"),
         RouteConfig(<<MatcherPath(PathA, "Prefix")>>,
                     <<MwHeaders, MwCircuitBreaker(ProxyBreaker),
                       MwRateLimit(ProxyBucket)>>, "Http"),
         RouteConfig(<<MatcherPath(PathB, "Prefix"), MatcherHeader("a")>>,
                     <<MwHeaders>>, "File") >>,
      << RouteConfig(<<MatcherMethod({"POST"})>>,
                     <<MwRateLimit(ProxyBucket), MwAuthentication("good")>>, "Http"),
         RouteConfig(<<>>,
                     <<MwCircuitBreaker(ProxyBreaker), MwAuthentication("good")>>,
                     "Http") >>,
      << RouteConfig(<<MatcherPath(PathA, "Prefix")>>,
                     <<MwCircuitBreaker(ProxyBreaker),
                       MwCors(CorsConfig("*", <<"GET", "POST">>, <<>>, "none", 3600))>>,
                     "Http"),
         RouteConfig(<<MatcherPath(PathB, "Prefix")>>,
                     <<MwCors(CorsConfig("https://a.com", <<"GET">>, <<"*">>, "true", 0)),
                       MwAuthentication("good")>>, "Http") >>,
      << RouteConfig(<<MatcherPath(PathA, "Prefix")>>,
                     <<MwRateLimit(SetBackBucket), MwCircuitBreaker(ProxyBreaker)>>,
                     "Http") >> }

\* A connection task before its first request.
IdleConn ==
    [pc |-> "idle", n |-> 0, req |-> NoRequest, dest |-> "none", route |-> 0,
     denial |-> Allowed, consulted |-> <<>>, log |-> <<>>, started |-> 0,
     recorded |-> <<>>, calls |-> <<>>, client |-> NoResponse]

InitProxy ==
    /\ NoBreaker
    /\ NoTokenBucket
    /\ NoFixedWindow
    /\ NoTls
    /\ NoAcceptLoop
    /\ NoEdge
    /\ now = 0
    /\ routes \in ListenerConfigs
    /\ conn = [t \in Conns |-> IdleConn]
    /\ pxReqs = 0

\* The connection task's record after get_destination answered d for its
\* n-th request req.
received(req, n, d, router, cors, valid) ==
    LET c == [pc |-> "done", n |-> n, req |-> req, dest |-> d.kind,
              route |-> d.route, denial |-> d.denial, consulted |-> d.consulted,
              log |-> d.log, started |-> 0, recorded |-> <<>>,
              calls |-> <<>>, client |-> NoResponse]
    IN  CASE d.kind = "Err" -> [c EXCEPT !.client = ErrorResponse]
          [] d.kind = "NotAllowed" -> [c EXCEPT !.client = DenialResponse(d.denial)]
          [] d.kind = "NoMatchFound" -> [c EXCEPT !.client = NotFoundResponse]
          [] d.kind = "Matched" ->
                IF is_preflight(req) /\ cors.kind = "Some"
                THEN [c EXCEPT !.client = handle_preflight(cors.cors, "", valid)]
                ELSE IF req.ws THEN [c EXCEPT !.pc = "upgrade", !.started = 1]
                ELSE IF router = "File" THEN [c EXCEPT !.pc = "file"]
                ELSE [c EXCEPT !.pc = "upstream", !.started = 1]

\* proxy() from the arrival of a request up to its first await on the
\* network or the file system: get_destination, then the answer for
\* NotAllowed / NoMatchFound / Err, or the start of the upstream call.
Receive(t, req) ==
    /\ conn[t].pc \in {"idle", "done"}
    /\ pxReqs < MaxRequests
    /\ pxReqs' = pxReqs + 1
    /\ \E d \in {get_destination(routes, req, now)} :
          /\ routes' = d.routes
          /\ \E cors \in {IF d.route = 0 THEN NoCors
                           ELSE cors_configed(routes[d.route].middlewares)} :
               \E valid \in (IF cors.kind = "Some" THEN validate_origin(cors.cors, "")
                              ELSE {"false"}) :
                  conn' = [conn EXCEPT ![t] =
                             received(req, pxReqs + 1, d,
                                      IF d.route = 0 THEN "" ELSE routes[d.route].router,
                                      cors, valid)]
    /\ UNCHANGED now
    /\ UNCHANGED <<cbVars, tbVars, fwVars, tlsVars, lsVars>>
    /\ UNCHANGED <<wsVars, grpcVars, rlVars, wrrVars, acmeVars, lockVars>>
\* The awaited upstream call of an Http destination completes.
UpstreamReturns(t, out) ==
    /\ conn[t].pc = "upstream"
    /\ IF out.kind = "Timeout"
       THEN /\ conn' = [conn EXCEPT ![t].pc = "done", ![t].client = ErrorResponse]
            /\ UNCHANGED routes
       ELSE \E h \in {handle_before_response(routes[conn[t].route].middlewares, out, now)} :
                /\ routes' = [routes EXCEPT ![conn[t].route].middlewares = h.mws]
                /\ conn' = [conn EXCEPT ![t].pc = "done",
                                        ![t].recorded = conn[t].recorded \o h.recorded,
                                        ![t].calls = h.calls,
                                        ![t].client =
                                            IF out.kind = "Ok"
                                            THEN Response(out.status, "upstream", <<>>)
                                            ELSE ErrorResponse]
    /\ UNCHANGED <<now, pxReqs>>
    /\ UNCHANGED <<cbVars, tbVars, fwVars, tlsVars, lsVars>>
    /\ UNCHANGED <<wsVars, grpcVars, rlVars, wrrVars, acmeVars, lockVars>>
\* server_upgrade: the upstream answers the upgrade request (or the 5 s
\* timeout elapses); proxy() returns its result as it is.
UpgradeReturns(t, out) ==
    /\ conn[t].pc = "upgrade"
    /\ conn' = [conn EXCEPT ![t].pc = "done",
                            ![t].client =
                                IF out.kind # "Ok" THEN ErrorResponse
                                ELSE IF out.status = 101 THEN Response(101, "", <<>>)
                                ELSE Response(out.status, "upstream", <<>>)]
    /\ UNCHANGED <<now, routes, pxReqs>>
    /\ UNCHANGED <<cbVars, tbVars, fwVars, tlsVars, lsVars>>
    /\ UNCHANGED <<wsVars, grpcVars, rlVars, wrrVars, acmeVars, lockVars>>
\* route_file of a File destination completes.
RouteFile(t, status) ==
    /\ conn[t].pc = "file"
    /\ \E h \in {handle_before_response(routes[conn[t].route].middlewares,
                                          [kind |-> "Ok", status |-> status], now)} :
           /\ routes' = [routes EXCEPT ![conn[t].route].middlewares = h.mws]
           /\ conn' = [conn EXCEPT ![t].pc = "done",
                                   ![t].recorded = conn[t].recorded \o h.recorded,
                                        ![t].calls = h.calls,
                                   ![t].client = Response(status, "file", <<>>)]
    /\ UNCHANGED <<now, pxReqs>>
    /\ UNCHANGED <<cbVars, tbVars, fwVars, tlsVars, lsVars>>
    /\ UNCHANGED <<wsVars, grpcVars, rlVars, wrrVars, acmeVars, lockVars>>
ProxyTick ==
    /\ now < MaxProxyTime
    /\ now' = now + 1
    /\ UNCHANGED <<cbVars, tbVars, fwVars, pxVars, tlsVars, lsVars>>
    /\ UNCHANGED <<wsVars, grpcVars, rlVars, wrrVars, acmeVars, lockVars>>
NextProxy ==
    \/ \E t \in Conns : \E req \in ProxyRequests : Receive(t, req)
    \/ \E t \in Conns : \E out \in UpstreamOutcomes : UpstreamReturns(t, out)
    \/ \E t \in Conns : \E out \in UpgradeOutcomes : UpgradeReturns(t, out)
    \/ \E t \in Conns : \E status \in FileStatuses : RouteFile(t, status)
    \/ ProxyTick

SpecProxy == InitProxy /\ [][NextProxy]_vars

(***************************************************************************)
(* Claims about the request pipeline (checked under SpecProxy).            *)
(***************************************************************************)

\* The status each kind of middleware denies with.
DenialStatus(mw) ==
    CASE mw.kind = "Authentication" -> 401
      [] mw.kind = "RateLimit" -> 429
      [] mw.kind = "CircuitBreaker" -> 503
      [] OTHER -> 0

\* C8: for a matched route, check_request is invoked on the middlewares in
\* declaration order; at the first Denied result no later middleware is
\* invoked and every later middleware keeps its state, the client receives
\* the denial's status, headers and body (401, 429, or 503 with
\* Retry-After: 30), and no upstream call is made.
C8_DenialShortCircuits ==
    [][\A t \in Conns :
         (conn'[t].n # conn[t].n /\ conn'[t].route # 0) =>
           LET c      == conn'[t]
               before == routes[c.route].middlewares
               after  == routes'[c.route].middlewares
               j      == Len(c.log)
           IN  /\ \A i \in 1..j : c.log[i].mw = i
               /\ \A i \in 1..(j - 1) : c.log[i].result = "Allowed"
               /\ \A k \in (j + 1)..Len(before) : after[k] = before[k]
               /\ c.dest = "Matched" =>
                    j = Len(before) /\ \A i \in 1..j : c.log[i].result = "Allowed"
               /\ c.dest = "NotAllowed" =>
                    /\ j >= 1 /\ c.log[j].result = "Denied"
                    /\ c.client = Response(c.denial.status, c.denial.body,
                                           DenialHeaders(c.denial))
                    /\ c.client.status = DenialStatus(before[j])
                    /\ before[j].kind = "CircuitBreaker" =>
                         c.client.headers.retry_after = 30
                    /\ c.started = 0 /\ c.pc = "done"
    ]_vars

C8_Witness ==
    \E t \in Conns :
        /\ conn[t].dest = "NotAllowed"
        /\ Len(conn[t].log) = 1
        /\ conn[t].client.status = 503
        /\ conn[t].client.headers.retry_after = 30
        /\ Len(routes[conn[t].route].middlewares) = 2
        /\ conn[t].started = 0

\* C9: every request for which an upstream call was started has the result
\* passed to record_outcome of each middleware of its route exactly once by
\* the time proxy() returns.
C9_StartedCallsAreRecorded ==
    \A t \in Conns :
        (conn[t].pc = "done" /\ conn[t].started > 0) =>
            conn[t].recorded =
                [i \in 1..Len(routes[conn[t].route].middlewares) |-> i]

\* The first route, in declaration order, all of whose matchers match; 0 if
\* there is none.
FirstMatch(rs, req) ==
    LET S == { i \in 1..Len(rs) :
                 \A k \in 1..Len(rs[i].matchers) : matches(rs[i].matchers[k], req) }
    IN  IF S = {} THEN 0 ELSE CHOOSE i \in S : \A k \in S : i <= k

C14_GatewayStatuses ==
    [][\A t \in Conns : \A out \in UpstreamOutcomes :
          UpstreamReturns(t, out) =>
             /\ out.kind = "Timeout" => conn'[t].client.status = 504
             /\ out.kind = "Err" => conn'[t].client = Response(502, "response_code -1", <<>>)
    ]_vars

\* The circuit breakers of route r before a step, and after it.
BreakersOf(rs, r) ==
    [i \in { k \in 1..Len(rs[r].middlewares) :
                rs[r].middlewares[k].kind = "CircuitBreaker" }
        |-> rs[r].middlewares[i].breaker]

\* C18: record_outcome counts the upstream result as a success iff it is a
\* response whose status is 2xx: the breaker of the route then is
\* record_success of the breaker before; for every other response and for a
\* transport error it is record_failure of the breaker before.
C18_SuccessIff2xx ==
    [][\A t \in Conns : \A out \in UpstreamOutcomes :
          (UpstreamReturns(t, out) /\ out.kind # "Timeout") =>
             LET r == conn[t].route
                 before == BreakersOf(routes, r)
                 after == BreakersOf(routes', r)
                 is2xx == out.kind = "Ok" /\ out.status \in 200..299
             IN  /\ conn'[t].recorded = [i \in 1..Len(routes[r].middlewares) |-> i]
                 /\ DOMAIN after = DOMAIN before
                 /\ \A i \in DOMAIN before :
                       after[i] = IF is2xx THEN record_success(before[i])
                                  ELSE record_failure(before[i], now)
    ]_vars

\* C18 witness: one request was answered 301 by the upstream and the
\* breaker of its route is Open (a failure was recorded), and another was
\* answered 204 on a route whose breaker counted one request and no failure.
C18_Witness ==
    \E t, u \in Conns :
        /\ conn[t].pc = "done" /\ conn[t].client = Response(301, "upstream", <<>>)
        /\ \E i \in DOMAIN BreakersOf(routes, conn[t].route) :
               BreakersOf(routes, conn[t].route)[i].state.tag = "Open"
        /\ conn[u].pc = "done" /\ conn[u].client = Response(204, "upstream", <<>>)
        /\ \E i \in DOMAIN BreakersOf(routes, conn[u].route) :
               BreakersOf(routes, conn[u].route)[i].state = StateClosed(0, 1, 0)

(***************************************************************************)
(* control_plane/cert_loader.rs and start_https_server: the TLS listener,  *)
(* its shared ServerConfig and the certificate watcher.                    *)
(***************************************************************************)
\* cert.pem as load_tls_config finds it: absent; present but File::open
\* fails; no PEM certificate inside; a PEM block rustls_pemfile rejects; a
\* PEM certificate that is no X.509 DER; an X.509 certificate outside its
\* validity; a valid one.  key.pem: absent; File::open fails; no private key
\* inside; a key with_single_cert rejects; a usable key.
CertFile(cert, key) == [cert |-> cert, key |-> key]

CertFileStates ==
    { CertFile("missing", "missing"), CertFile("valid", "valid"),
      CertFile("valid", "missing"), CertFile("expired", "valid"),
      CertFile("empty", "valid"), CertFile("bad-pem", "valid"),
      CertFile("unreadable", "valid"), CertFile("not-x509", "valid"),
      CertFile("valid", "unreadable"), CertFile("valid", "no-key"),
      CertFile("valid", "unusable") }

\* fn create_self_signed_cert, for a domain rcgen accepts.
create_self_signed_cert == "self-signed"

\* fn load_tls_config: "files" (Ok, built from cert.pem and key.pem),
\* "self-signed" (Ok, the fallback) or "err".
load_tls_config(f) ==
    IF f.cert # "missing" /\ f.key # "missing"
    THEN CASE f.cert = "unreadable" -> "err"
           [] f.cert = "empty" -> create_self_signed_cert
           [] f.cert = "bad-pem" -> create_self_signed_cert
           [] f.cert = "not-x509" -> "err"
           [] f.cert = "expired" -> create_self_signed_cert
           [] f.cert = "valid" -> IF f.key = "valid" THEN "files" ELSE "err"
    ELSE create_self_signed_cert

\* std::sync::RwLock: read() waits while a writer holds the lock.  The
\* second definition is a lock whose read() never waits.
rwlock_read_unguarded(lock) == TRUE

rwlock_read(lock) == ~lock.writer

\* write() waits while the writer or a reader holds the lock.
rwlock_write(lock) == ~lock.writer /\ ~lock.reader

(***************************************************************************)
(* Bounds of the TLS runs.                                                 *)
(***************************************************************************)
MaxFileEvents == 2

\* The TLS connections the listener accepts.
Handshakes == {1, 2}

NoHandshake == [pc |-> "none", cert |-> 0, key |-> 0, began |-> 0, cloned |-> 0]

InitTLS ==
    /\ NoBreaker
    /\ NoTokenBucket
    /\ NoFixedWindow
    /\ NoListener
    /\ NoAcceptLoop
    /\ NoEdge
    /\ now = 0
    /\ certFiles \in CertFileStates
    /\ tlsListener = "starting"
    /\ tlsConfigs = <<>>
    /\ tlsShared = [cert |-> 0, key |-> 0]
    /\ tlsLock = [writer |-> FALSE, reader |-> FALSE]
    /\ tlsWatcher = [pc |-> "none", new |-> 0, seen |-> 0]
    /\ tlsPending = 0
    /\ tlsEvents = 0
    /\ tlsInstalled = 0
    /\ tlsAccept = [pc |-> "none", h |-> 0]
    /\ hs = [h \in Handshakes |-> NoHandshake]
    /\ nFileEvents = 0

\* start_https_server up to its accept loop: load_tls_config(..)? , the
\* shared handle, the watcher task.
StartHttps ==
    /\ tlsListener = "starting"
    /\ \E r \in {load_tls_config(certFiles)} :
          IF r = "err"
          THEN /\ tlsListener' = "failed"
               /\ UNCHANGED <<tlsConfigs, tlsShared, tlsWatcher, tlsInstalled, tlsAccept>>
          ELSE /\ tlsListener' = "accepting"
               /\ tlsConfigs' = <<r>>
               /\ tlsShared' = [cert |-> 1, key |-> 1]
               /\ tlsInstalled' = 1
               /\ tlsWatcher' = [pc |-> "idle", new |-> 0, seen |-> 0]
               /\ tlsAccept' = [pc |-> "select", h |-> 0]
    /\ UNCHANGED <<now, certFiles, tlsLock, tlsPending, tlsEvents, hs, nFileEvents>>
    /\ UNCHANGED <<cbVars, tbVars, fwVars, pxVars, lsVars>>
    /\ UNCHANGED <<wsVars, grpcVars, rlVars, wrrVars, acmeVars, lockVars>>
\* cert.pem or key.pem is created or modified while the watcher watches.
FileChange(f) ==
    /\ tlsWatcher.pc # "none"
    /\ nFileEvents < MaxFileEvents
    /\ f # certFiles
    /\ certFiles' = f
    /\ tlsPending' = tlsPending + 1
    /\ nFileEvents' = nFileEvents + 1
    /\ UNCHANGED <<now, tlsListener, tlsConfigs, tlsShared, tlsLock, tlsWatcher,
                   tlsEvents, tlsInstalled, tlsAccept, hs>>
    /\ UNCHANGED <<cbVars, tbVars, fwVars, pxVars, lsVars>>
    /\ UNCHANGED <<wsVars, grpcVars, rlVars, wrrVars, acmeVars, lockVars>>
\* The notify callback: tx.blocking_send(()) on the channel of capacity 1.
NotifySend ==
    /\ tlsPending > 0
    /\ tlsEvents = 0
    /\ tlsPending' = tlsPending - 1
    /\ tlsEvents' = 1
    /\ UNCHANGED <<now, certFiles, tlsListener, tlsConfigs, tlsShared, tlsLock,
                   tlsWatcher, tlsInstalled, tlsAccept, hs, nFileEvents>>
    /\ UNCHANGED <<cbVars, tbVars, fwVars, pxVars, lsVars>>
    /\ UNCHANGED <<wsVars, grpcVars, rlVars, wrrVars, acmeVars, lockVars>>
\* rx.recv().await yields a message; the watcher sleeps 1 s.
WatcherRecv ==
    /\ tlsWatcher.pc = "idle"
    /\ tlsEvents = 1
    /\ tlsEvents' = 0
    /\ tlsWatcher' = [tlsWatcher EXCEPT !.pc = "sleeping"]
    /\ UNCHANGED <<now, certFiles, tlsListener, tlsConfigs, tlsShared, tlsLock,
                   tlsPending, tlsInstalled, tlsAccept, hs, nFileEvents>>
    /\ UNCHANGED <<cbVars, tbVars, fwVars, pxVars, lsVars>>
    /\ UNCHANGED <<wsVars, grpcVars, rlVars, wrrVars, acmeVars, lockVars>>
\* The watcher after load_tls_config returned r, the n-th config built, having
\* read the files as they were after `seen` events: the `match` logs an Err
\* and goes back to rx.recv(); an Ok goes on to tls_config.write().  The
\* first definition is a watcher that leaves its loop on an Err (`?`).
watcher_returns_on_error(r, n, seen) ==
    IF r = "err"
    THEN [pc |-> "returned", new |-> 0, seen |-> seen]
    ELSE [pc |-> "loaded", new |-> n, seen |-> seen]

watcher_after_load(r, n, seen) ==
    IF r = "err"
    THEN [pc |-> "idle", new |-> 0, seen |-> seen]
    ELSE [pc |-> "loaded", new |-> n, seen |-> seen]

\* After the sleep: load_tls_config; on Err the old config is kept.
WatcherReload ==
    /\ tlsWatcher.pc = "sleeping"
    /\ \E r \in {load_tls_config(certFiles)} :
          /\ tlsWatcher' = watcher_after_load(r, Len(tlsConfigs) + 1, nFileEvents)
          /\ tlsConfigs' = IF r = "err" THEN tlsConfigs ELSE Append(tlsConfigs, r)
    /\ UNCHANGED <<now, certFiles, tlsListener, tlsShared, tlsLock, tlsPending,
                   tlsEvents, tlsInstalled, tlsAccept, hs, nFileEvents>>
    /\ UNCHANGED <<cbVars, tbVars, fwVars, pxVars, lsVars>>
    /\ UNCHANGED <<wsVars, grpcVars, rlVars, wrrVars, acmeVars, lockVars>>
\* tls_config.write() is granted and `*config_writer = new_config` begins:
\* the first part of the value is stored.
WatcherWrite ==
    /\ tlsWatcher.pc = "loaded"
    /\ rwlock_write(tlsLock)
    /\ tlsLock' = [tlsLock EXCEPT !.writer = TRUE]
    /\ tlsShared' = [tlsShared EXCEPT !.cert = tlsWatcher.new]
    /\ tlsWatcher' = [tlsWatcher EXCEPT !.pc = "writing"]
    /\ UNCHANGED <<now, certFiles, tlsListener, tlsConfigs, tlsPending, tlsEvents,
                   tlsInstalled, tlsAccept, hs, nFileEvents>>
    /\ UNCHANGED <<cbVars, tbVars, fwVars, pxVars, lsVars>>
    /\ UNCHANGED <<wsVars, grpcVars, rlVars, wrrVars, acmeVars, lockVars>>
\* The assignment completes and the write guard is dropped.
WatcherSwapped ==
    /\ tlsWatcher.pc = "writing"
    /\ tlsShared' = [tlsShared EXCEPT !.key = tlsWatcher.new]
    /\ tlsLock' = [tlsLock EXCEPT !.writer = FALSE]
    /\ tlsInstalled' = tlsWatcher.new
    /\ tlsWatcher' = [tlsWatcher EXCEPT !.pc = "idle", !.new = 0]
    /\ UNCHANGED <<now, certFiles, tlsListener, tlsConfigs, tlsPending, tlsEvents,
                   tlsAccept, hs, nFileEvents>>
    /\ UNCHANGED <<cbVars, tbVars, fwVars, pxVars, lsVars>>
    /\ UNCHANGED <<wsVars, grpcVars, rlVars, wrrVars, acmeVars, lockVars>>
\* listener.accept() yields connection h.
TlsAccept(h) ==
    /\ tlsListener = "accepting"
    /\ tlsAccept.pc = "select"
    /\ hs[h].pc = "none"
    /\ tlsAccept' = [pc |-> "read", h |-> h]
    /\ hs' = [hs EXCEPT ![h] = [NoHandshake EXCEPT !.pc = "accepted",
                                                  !.began = tlsInstalled]]
    /\ UNCHANGED <<now, certFiles, tlsListener, tlsConfigs, tlsShared, tlsLock,
                   tlsWatcher, tlsPending, tlsEvents, tlsInstalled, nFileEvents>>
    /\ UNCHANGED <<cbVars, tbVars, fwVars, pxVars, lsVars>>
    /\ UNCHANGED <<wsVars, grpcVars, rlVars, wrrVars, acmeVars, lockVars>>
\* shared_tls_config.read() is granted and config_guard.clone() begins: the
\* first part of the value is copied.
TlsRead ==
    /\ tlsAccept.pc = "read"
    /\ rwlock_read(tlsLock)
    /\ tlsLock' = [tlsLock EXCEPT !.reader = TRUE]
    /\ hs' = [hs EXCEPT ![tlsAccept.h].cert = tlsShared.cert]
    /\ tlsAccept' = [tlsAccept EXCEPT !.pc = "clone"]
    /\ UNCHANGED <<now, certFiles, tlsListener, tlsConfigs, tlsShared, tlsWatcher,
                   tlsPending, tlsEvents, tlsInstalled, nFileEvents>>
    /\ UNCHANGED <<cbVars, tbVars, fwVars, pxVars, lsVars>>
    /\ UNCHANGED <<wsVars, grpcVars, rlVars, wrrVars, acmeVars, lockVars>>
\* The clone completes: TlsAcceptor::from(Arc::new(..)), the read guard is
\* dropped at the end of the branch and the connection task is spawned.
TlsSpawn ==
    /\ tlsAccept.pc = "clone"
    /\ hs' = [hs EXCEPT ![tlsAccept.h].key = tlsShared.key,
                        ![tlsAccept.h].cloned = tlsInstalled,
                        ![tlsAccept.h].pc = "handshaking"]
    /\ tlsLock' = [tlsLock EXCEPT !.reader = FALSE]
    /\ tlsAccept' = [pc |-> "select", h |-> 0]
    /\ UNCHANGED <<now, certFiles, tlsListener, tlsConfigs, tlsShared, tlsWatcher,
                   tlsPending, tlsEvents, tlsInstalled, nFileEvents>>
    /\ UNCHANGED <<cbVars, tbVars, fwVars, pxVars, lsVars>>
    /\ UNCHANGED <<wsVars, grpcVars, rlVars, wrrVars, acmeVars, lockVars>>
\* tls_acceptor.accept(tcp_stream).await of the connection task completes:
\* the connection is served, or the handshake failed and the task returns.
Handshake(h, ok) ==
    /\ hs[h].pc = "handshaking"
    /\ hs' = [hs EXCEPT ![h].pc = IF ok THEN "serving" ELSE "failed"]
    /\ UNCHANGED <<now, certFiles, tlsListener, tlsConfigs, tlsShared, tlsLock,
                   tlsWatcher, tlsPending, tlsEvents, tlsInstalled, tlsAccept,
                   nFileEvents>>
    /\ UNCHANGED <<cbVars, tbVars, fwVars, pxVars, lsVars>>
    /\ UNCHANGED <<wsVars, grpcVars, rlVars, wrrVars, acmeVars, lockVars>>
NextTLS ==
    \/ StartHttps
    \/ \E f \in CertFileStates : FileChange(f)
    \/ NotifySend
    \/ WatcherRecv
    \/ WatcherReload
    \/ WatcherWrite
    \/ WatcherSwapped
    \/ \E h \in Handshakes : TlsAccept(h)
    \/ TlsRead
    \/ TlsSpawn
    \/ \E h \in Handshakes : Handshake(h, TRUE)
    \/ \E h \in Handshakes : Handshake(h, FALSE)

SpecTLS == InitTLS /\ [][NextTLS]_vars

(***************************************************************************)
(* Claims about the TLS listener (checked under SpecTLS).                  *)
(***************************************************************************)

\* The connections whose acceptor has been built.
Snapshotted == { h \in Handshakes : hs[h].pc \in {"handshaking", "serving", "failed"} }

\* C11: under every interleaving of the watcher's swap with TLS accepts, the
\* config a handshake uses is one complete ServerConfig (both parts from the
\* same build), namely the one installed when it was cloned, which is the
\* config before or after a concurrent swap, and never older than the one
\* installed when the accept began; a started handshake keeps its config
\* whatever the watcher does afterwards.
C11_HandshakeUsesOneConfig ==
    [][/\ \A h \in Snapshotted' :
             /\ hs'[h].cert = hs'[h].key
             /\ hs'[h].cert = hs'[h].cloned
             /\ hs'[h].cert >= hs'[h].began
             /\ hs'[h].cert \in 1..Len(tlsConfigs')
       /\ \A h \in Snapshotted :
             /\ hs'[h].cert = hs[h].cert
             /\ hs'[h].key = hs[h].key]_vars

\* C11 witness: a swap completed while connection 1 was handshaking with
\* the first config; connection 2, accepted after the swap, uses the
\* second config.
C11_Witness ==
    /\ tlsInstalled = 2
    /\ hs[1].pc = "handshaking" /\ hs[1].cert = 1 /\ hs[1].key = 1
    /\ hs[2].pc \in {"handshaking", "serving"} /\ hs[2].began = 2
    /\ hs[2].cert = 2 /\ hs[2].key = 2

\* C20: load_tls_config never fails because of the state of the
\* certificate files, so the TLS listener always starts.
C20_TlsListenerAlwaysStarts == tlsListener # "failed"

\* The notify thread delivers what it has to deliver, the watcher task is
\* polled when it can proceed, and the synchronous clone under the read
\* guard of the accept loop runs to its end.
SpecTLSFair ==
    /\ SpecTLS
    /\ WF_vars(NotifySend)
    /\ WF_vars(WatcherRecv)
    /\ WF_vars(WatcherReload)
    /\ WF_vars(WatcherWrite)
    /\ WF_vars(WatcherSwapped)
    /\ WF_vars(TlsSpawn)

\* C31: whenever create/modify events on cert.pem or key.pem have happened
\* that no reload attempt has read behind yet, a reload attempt eventually
\* reads the files as they are after all of them; a reload whose
\* load_tls_config succeeds goes on to the swap, which ends with the shared
\* handle holding the config it built; one whose load_tls_config fails
\* leaves the shared handle as it was and the watcher back at rx.recv().
C31_EveryEventIsReloaded ==
    /\ (tlsWatcher.seen < nFileEvents) ~> (tlsWatcher.seen >= nFileEvents)
    /\ (tlsWatcher.pc \in {"loaded", "writing"}) ~> (tlsWatcher.pc = "idle")
    /\ [][/\ (tlsWatcher.pc = "sleeping" /\ tlsWatcher' # tlsWatcher) =>
               /\ tlsWatcher'.seen = nFileEvents
               /\ IF load_tls_config(certFiles) = "err"
                  THEN /\ tlsShared' = tlsShared
                       /\ tlsInstalled' = tlsInstalled
                       /\ tlsConfigs' = tlsConfigs
                       /\ tlsWatcher'.pc = "idle"
                  ELSE /\ tlsWatcher'.pc = "loaded"
                       /\ tlsWatcher'.new = Len(tlsConfigs')
                       /\ tlsConfigs'[tlsWatcher'.new] = load_tls_config(certFiles)
          /\ (tlsWatcher.pc \in {"loaded", "writing"} /\ tlsWatcher' # tlsWatcher) =>
               IF tlsWatcher'.pc = "idle"
               THEN /\ tlsInstalled' = tlsWatcher.new
                    /\ tlsShared' = [cert |-> tlsWatcher.new, key |-> tlsWatcher.new]
               ELSE /\ tlsWatcher'.pc = "writing"
                    /\ tlsWatcher'.new = tlsWatcher.new]_vars

\* C31 witness: the first event was reloaded and its config installed; the
\* reload after the second event failed, the handle still holds the second
\* config and the watcher waits for the next message.
C31_Witness ==
    /\ nFileEvents = 2
    /\ tlsWatcher.pc = "idle"
    /\ tlsWatcher.seen = 2
    /\ load_tls_config(certFiles) = "err"
    /\ Len(tlsConfigs) = 2
    /\ tlsInstalled = 2
    /\ tlsShared = [cert |-> 2, key |-> 2]

(***************************************************************************)
(* app_config_service::init and start_http_server: one listener task per   *)
(* configured port, its shutdown channel and its connection tasks.         *)
(***************************************************************************)
\* The listen ports of the configuration.
Ports == {8080, 8081}

\* The connection tasks the listeners spawn.
TaskIds == {1, 2}

MaxAccepts == 2
MaxServed == 1
MaxShutdowns == 1

\* What proxy_adapter_with_error returns for a request: a response (an Err
\* of proxy() already is the 500 envelope here) or an Err of its own.
AdapterResults ==
    { [kind |-> "Ok", status |-> 200], [kind |-> "Ok", status |-> 500],
      [kind |-> "Err", status |-> 0] }

\* A proxy_adapter that hands the Err on to the connection.
proxy_adapter_passthrough(result) == result

\* fn proxy_adapter: Ok(res) stays, Err(err) becomes Ok(404 {"error": ..}).
proxy_adapter(result) ==
    IF result.kind = "Ok" THEN result ELSE [kind |-> "Ok", status |-> 404]

\* The recv branch of select! without its break.
select_recv_continue(l) == l

\* The recv branch of select!: `break`, the function returns Ok(()) and the
\* TcpListener is dropped.
select_recv(l) == [l EXCEPT !.pc = "stopped"]

\* init, the spawned task: `if let Err(err) = start_proxy(..).await
\* { error!("{err}") }`; the Err of listener p is logged and the task of p
\* ends.  The first definition is an init that gives up on the Err and ends
\* the listeners that have not bound yet as well.
start_proxy_failed_ends_all(ls, p) ==
    [q \in DOMAIN ls |->
        IF q = p THEN [ls[q] EXCEPT !.pc = "failed", !.logged = TRUE]
        ELSE IF ls[q].pc = "binding" THEN [ls[q] EXCEPT !.pc = "failed"]
        ELSE ls[q]]

start_proxy_failed(ls, p) == [ls EXCEPT ![p].pc = "failed", ![p].logged = TRUE]

\* init: `let (sender, receiver) = mpsc::channel::<()>(1000)` inside the
\* loop, so the channel of a port is its own.  The first definition is one
\* channel made before the loop and shared by all ports.
channel_shared(p) == CHOOSE q \in Ports : \A r \in Ports : q <= r

channel_of(p) == p

NoTask == [pc |-> "none", port |-> 0, last |-> NoResult, served |-> 0,
           afterFailure |-> FALSE, late |-> FALSE]

\* init: a channel and a spawned start_proxy task for every port.
InitListeners ==
    /\ NoBreaker
    /\ NoTokenBucket
    /\ NoFixedWindow
    /\ NoListener
    /\ NoTls
    /\ NoEdge
    /\ now = 0
    /\ listener = [p \in Ports |-> [pc |-> "binding", logged |-> FALSE,
                                      afterFailure |-> FALSE]]
    /\ shutdown = [p \in Ports |-> 0]
    /\ task = [c \in TaskIds |-> NoTask]
    /\ nAccepted = 0
    /\ nSent = 0

\* TcpListener::bind(addr).await? : on Err start_http_server returns it (as
\* it does the Err of AppClients::new), start_proxy returns it to the task.
Bind(p, ok) ==
    /\ listener[p].pc = "binding"
    /\ listener' = IF ok
                   THEN [listener EXCEPT
                           ![p].pc = "accepting",
                           ![p].afterFailure = \E q \in Ports : listener[q].pc = "failed"]
                   ELSE start_proxy_failed(listener, p)
    /\ UNCHANGED <<now, shutdown, task, nAccepted, nSent>>
    /\ UNCHANGED <<cbVars, tbVars, fwVars, pxVars, tlsVars>>
    /\ UNCHANGED <<wsVars, grpcVars, rlVars, wrrVars, acmeVars, lockVars>>
\* The accept branch of select!: the connection task c is spawned.
Accept(p, c) ==
    /\ listener[p].pc = "accepting"
    /\ task[c].pc = "none"
    /\ nAccepted < MaxAccepts
    /\ nAccepted' = nAccepted + 1
    /\ task' = [task EXCEPT ![c] =
                  [NoTask EXCEPT !.pc = "serving", !.port = p,
                                 !.afterFailure =
                                     \E d \in TaskIds : task[d].pc \in {"failed", "panicked"}]]
    /\ UNCHANGED <<now, listener, shutdown, nSent>>
    /\ UNCHANGED <<cbVars, tbVars, fwVars, pxVars, tlsVars>>
    /\ UNCHANGED <<wsVars, grpcVars, rlVars, wrrVars, acmeVars, lockVars>>
\* listener.accept() yields Err: the pattern Ok(..) does not match, select!
\* disables the branch and goes on waiting for the recv branch alone.
AcceptError(p) ==
    /\ listener[p].pc = "accepting"
    /\ listener' = [listener EXCEPT ![p].pc = "recv-only"]
    /\ UNCHANGED <<now, shutdown, task, nAccepted, nSent>>
    /\ UNCHANGED <<cbVars, tbVars, fwVars, pxVars, tlsVars>>
    /\ UNCHANGED <<wsVars, grpcVars, rlVars, wrrVars, acmeVars, lockVars>>
\* The control plane sends () on the sender kept in the port's ApiService.
SendShutdown(p) ==
    /\ nSent < MaxShutdowns
    /\ listener[p].pc \notin {"stopped", "failed"}
    /\ shutdown' = [shutdown EXCEPT ![channel_of(p)] = @ + 1]
    /\ nSent' = nSent + 1
    /\ UNCHANGED <<now, listener, task, nAccepted>>
    /\ UNCHANGED <<cbVars, tbVars, fwVars, pxVars, tlsVars>>
    /\ UNCHANGED <<wsVars, grpcVars, rlVars, wrrVars, acmeVars, lockVars>>
\* The recv branch of select! takes a message.
RecvShutdown(p) ==
    /\ listener[p].pc \in {"accepting", "recv-only"}
    /\ shutdown[channel_of(p)] > 0
    /\ shutdown' = [shutdown EXCEPT ![channel_of(p)] = @ - 1]
    /\ listener' = [listener EXCEPT ![p] = select_recv(listener[p])]
    /\ UNCHANGED <<now, task, nAccepted, nSent>>
    /\ UNCHANGED <<cbVars, tbVars, fwVars, pxVars, tlsVars>>
    /\ UNCHANGED <<wsVars, grpcVars, rlVars, wrrVars, acmeVars, lockVars>>
\* The connection task serves one request: the service is proxy_adapter; an
\* Err from the service makes serve_connection end with that error.
ServeRequest(c, result) ==
    /\ task[c].pc = "serving"
    /\ task[c].served < MaxServed
    /\ \E a \in {proxy_adapter(result)} :
          task' = [task EXCEPT ![c].last = a,
                               ![c].served = task[c].served + 1,
                               ![c].late = task[c].late
                                           \/ listener[task[c].port].pc = "stopped",
                               ![c].pc = IF a.kind = "Err" THEN "failed" ELSE "serving"]
    /\ UNCHANGED <<now, listener, shutdown, nAccepted, nSent>>
    /\ UNCHANGED <<cbVars, tbVars, fwVars, pxVars, tlsVars>>
    /\ UNCHANGED <<wsVars, grpcVars, rlVars, wrrVars, acmeVars, lockVars>>
\* serve_connection returns: the peer closed ("finished"), an I/O or
\* protocol error that the task logs ("failed"), or a panic in the task.
ConnectionEnds(c, how) ==
    /\ task[c].pc = "serving"
    /\ task' = [task EXCEPT ![c].pc = how]
    /\ UNCHANGED <<now, listener, shutdown, nAccepted, nSent>>
    /\ UNCHANGED <<cbVars, tbVars, fwVars, pxVars, tlsVars>>
    /\ UNCHANGED <<wsVars, grpcVars, rlVars, wrrVars, acmeVars, lockVars>>
NextListeners ==
    \/ \E p \in Ports : Bind(p, TRUE)
    \/ \E p \in Ports : Bind(p, FALSE)
    \/ \E p \in Ports : \E c \in TaskIds : Accept(p, c)
    \/ \E p \in Ports : AcceptError(p)
    \/ \E p \in Ports : SendShutdown(p)
    \/ \E p \in Ports : RecvShutdown(p)
    \/ \E c \in TaskIds : \E result \in AdapterResults : ServeRequest(c, result)
    \/ \E c \in TaskIds : \E how \in {"finished", "failed", "panicked"} : ConnectionEnds(c, how)

SpecListeners == InitListeners /\ [][NextListeners]_vars

\* The select! loop is polled again whenever a message waits in the channel.
SpecListenersFair ==
    SpecListeners /\ \A p \in Ports : WF_vars(RecvShutdown(p))

(***************************************************************************)
(* Claims about the listeners.                                             *)
(***************************************************************************)

\* C12: a listener's accept loop exits when a message is received on its
\* shutdown channel (and a waiting message is eventually received); once it
\* has exited, no further connection is accepted on its port; the exit
\* changes no connection task, and the tasks already spawned go on serving.
C12_ShutdownStopsAccepting ==
    /\ [][\A p \in Ports :
            /\ RecvShutdown(p) => (listener'[p].pc = "stopped" /\ task' = task)
            /\ listener[p].pc = "stopped" =>
                  /\ listener'[p].pc = "stopped"
                  /\ \A c \in TaskIds :
                        (task'[c].port = p /\ task'[c].pc # "none") => task[c].port = p
         ]_vars
    /\ \A p \in Ports :
          (shutdown[p] > 0 /\ listener[p].pc \in {"accepting", "recv-only"})
             ~> (listener[p].pc = "stopped")

\* C12 witness: the listener of port 8080 has stopped; a connection task it
\* spawned served a request after that and is still running, and the other
\* listener is accepting.
C12_Witness ==
    /\ listener[8080].pc = "stopped"
    /\ listener[8081].pc = "accepting"
    /\ \E c \in TaskIds :
          task[c].port = 8080 /\ task[c].pc = "serving" /\ task[c].late

\* C13: no per-request error terminates a listener: what proxy_adapter
\* returns to the connection is never an Err, and no step of a connection
\* task (a request served, a connection that failed or panicked) changes a
\* listener, which goes on accepting.
C13_RequestErrorsStayLocal ==
    [][/\ \A c \in TaskIds : task'[c].last.kind \in {"None", "Ok"}
       /\ \A c \in TaskIds :
             (task[c].pc = "serving" /\ task'[c] # task[c]) => listener' = listener
      ]_vars

\* C13 witness: a request was answered 404 from an Err, a connection task
\* failed, and the same listener, still accepting, spawned a task after the
\* failure.
C13_Witness ==
    \E c, d \in TaskIds :
        /\ task[c].pc \in {"failed", "panicked"}
        /\ task[c].last = [kind |-> "Ok", status |-> 404]
        /\ task[d].port = task[c].port /\ task[d].afterFailure /\ task[d].pc = "serving"
        /\ listener[task[c].port].pc = "accepting"

\* C33: a listener whose bind (or any other step of start_proxy before the
\* accept loop) fails logs the error and ends: the step changes no other
\* listener, no connection task and no channel, the failed listener stays
\* as it is, and every listener that is still to bind can bind and every
\* accepting listener with a free connection task can accept, whatever
\* failed elsewhere.
C33_BindFailureEndsOnlyItsTask ==
    /\ [][\A p \in Ports :
            /\ (listener[p].pc = "binding" /\ listener'[p].pc = "failed") =>
                  /\ listener'[p].logged
                  /\ \A q \in Ports \ {p} : listener'[q] = listener[q]
                  /\ task' = task
                  /\ shutdown' = shutdown
            /\ listener[p].pc = "failed" => listener'[p] = listener[p]
         ]_vars
    /\ [](\A q \in Ports :
            /\ listener[q].pc = "binding" => ENABLED Bind(q, TRUE)
            /\ (listener[q].pc = "accepting" /\ nAccepted < MaxAccepts
                  /\ \E c \in TaskIds : task[c].pc = "none")
                 => ENABLED (\E c \in TaskIds : Accept(q, c)))

\* C33 witness: the bind of port 8080 failed and was logged; port 8081 was
\* bound after that, accepted a connection and is still accepting.
C33_Witness ==
    /\ listener[8080].pc = "failed" /\ listener[8080].logged
    /\ listener[8081].pc = "accepting" /\ listener[8081].afterFailure
    /\ \E c \in TaskIds : task[c].port = 8081 /\ task[c].pc = "serving"

\* C40: a message sent on the channel of one port is one more message
\* waiting for that port and for no other, and changes no listener; taking
\* it stops that port's listener and leaves every other listener and every
\* other channel as it was; a listener only stops by taking a message
\* from its own channel, and an accepting listener with a free connection
\* task can accept whatever stopped elsewhere.
C40_ShutdownStopsOnlyItsListener ==
    /\ [][\A p \in Ports :
            /\ SendShutdown(p) =>
                  /\ shutdown'[p] = shutdown[p] + 1
                  /\ \A q \in Ports \ {p} : shutdown'[q] = shutdown[q]
                  /\ listener' = listener
            /\ (listener[p].pc # "stopped" /\ listener'[p].pc = "stopped") =>
                  /\ shutdown'[p] = shutdown[p] - 1
                  /\ \A q \in Ports \ {p} :
                        listener'[q] = listener[q] /\ shutdown'[q] = shutdown[q]
         ]_vars
    /\ [](\A q \in Ports :
            (listener[q].pc = "accepting" /\ nAccepted < MaxAccepts
               /\ \E c \in TaskIds : task[c].pc = "none")
              => ENABLED (\E c \in TaskIds : Accept(q, c)))

\* C40 witness: the listener of port 8081 took its shutdown message and
\* stopped; the listener of port 8080 is accepting and has a connection
\* task serving.
C40_Witness ==
    /\ listener[8081].pc = "stopped"
    /\ nSent = 1
    /\ shutdown = [p \in Ports |-> 0]
    /\ listener[8080].pc = "accepting"
    /\ \E c \in TaskIds : task[c].port = 8080 /\ task[c].pc = "serving"

\* The headers the preflight answer of a CORS configuration should carry.
PreflightHeaders(cors) ==
    [access_control_allow_methods |-> JoinComma(cors.allowed_methods),
     access_control_allow_headers |-> JoinComma(cors.allowed_headers),
     access_control_allow_origin |-> cors.allowed_origins,
     vary |-> "Origin",
     access_control_allow_credentials |->
         IF cors.allow_credentials = "true" THEN "true" ELSE "absent",
     access_control_max_age |->
         IF cors.max_age = 0 THEN "absent" ELSE ToString(cors.max_age)]

\* C21: an OPTIONS request carrying Origin and
\* Access-Control-Request-Method, on a matched route that has a CORS
\* middleware, is answered 204 without an upstream call, with
\* Access-Control-Allow-Methods (the methods joined by ", "), the allowed
\* headers, Access-Control-Allow-Origin (* when allowed_origins = *),
\* Access-Control-Max-Age when configured, Access-Control-Allow-Credentials:
\* true iff the flag is set, and Vary: Origin.
C21_PreflightAnswered ==
    \A t \in Conns :
        (/\ conn[t].n > 0
         /\ is_preflight(conn[t].req)
         /\ conn[t].dest = "Matched"
         /\ cors_configed(routes[conn[t].route].middlewares).kind = "Some")
        => /\ conn[t].pc = "done"
           /\ conn[t].started = 0
           /\ conn[t].client.status = 204
           /\ conn[t].client.headers =
                  PreflightHeaders(cors_configed(routes[conn[t].route].middlewares).cors)

\* The positions of the calls of operation op in a call log.
CallsOf(calls, op) == {k \in 1..Len(calls) : calls[k].op = op}

\* The call log visits the middlewares 1..n in declaration order with op, at
\* the positions from+1 .. from+n.
InDeclarationOrder(calls, op, from, n) ==
    /\ CallsOf(calls, op) = (from + 1)..(from + n)
    /\ \A k \in (from + 1)..(from + n) : calls[k].mw = k - from

\* C27: whenever the pre-response phase runs for a request, record_outcome
\* is invoked on every middleware of the route in declaration order before
\* handle_response is invoked on any; handle_response then runs in
\* declaration order when the upstream result is a response, and not at all
\* when it is an error.
C27_RecordBeforeResponse ==
    [][\A t \in Conns :
          conn'[t].calls # <<>> /\ conn[t].calls = <<>> =>
              LET calls == conn'[t].calls
                  n == Len(routes[conn[t].route].middlewares)
              IN  /\ InDeclarationOrder(calls, "record_outcome", 0, n)
                  /\ \A i \in CallsOf(calls, "handle_response") :
                         \A j \in CallsOf(calls, "record_outcome") : j < i
                  /\ IF conn'[t].client.body \in {"upstream", "file"}
                     THEN InDeclarationOrder(calls, "handle_response", n, n)
                     ELSE CallsOf(calls, "handle_response") = {}]_vars

\* A request on a route of three middlewares got a response: six calls.
C27_Witness ==
    \E t \in Conns :
        /\ Len(conn[t].calls) = 6
        /\ conn[t].calls[4].op = "handle_response"
        /\ conn[t].client.body = "upstream"

(***************************************************************************)
(* proxy/http1/websocket_proxy.rs: server_upgrade and the relay task of    *)
(* proxy_websocket_connection, for one upgrade request.                    *)
\* The token-bucket middlewares of route r that a clock reading of t puts
\* before their last_update_time for request req.
ClockEarlier(rs, r, req, t) ==
    { k \in 1..Len(rs[r].middlewares) :
        /\ rs[r].middlewares[k].kind = "RateLimit"
        /\ ~rs[r].middlewares[k].poisoned
        /\ matched(rs[r].middlewares[k].limiter.scope, req) = "true"
        /\ t < rs[r].middlewares[k].limiter.last_update_time }

\* C39: when should_limit of a token bucket is called with a clock reading
\* earlier than its last_update_time, the call is the last one is_allowed
\* makes and its result is an Err; the bucket keeps its current_count and
\* last_update_time; the request is answered 500 with the error envelope and
\* no upstream call is started.
C39_ClockEarlierIsAnError ==
    [][\A t \in Conns :
          (conn[t].pc \in {"idle", "done"} /\ conn'[t].n # conn[t].n
             /\ conn'[t].route # 0) =>
            \A i \in 1..Len(conn'[t].log) :
               conn'[t].log[i].mw \in ClockEarlier(routes, conn'[t].route, conn'[t].req, now) =>
                  /\ i = Len(conn'[t].log)
                  /\ conn'[t].log[i].result = "Err"
                  /\ routes'[conn'[t].route].middlewares[conn'[t].log[i].mw]
                        = routes[conn'[t].route].middlewares[conn'[t].log[i].mw]
                  /\ conn'[t].dest = "Err"
                  /\ conn'[t].client = ErrorResponse
                  /\ conn'[t].pc = "done"
                  /\ conn'[t].started = 0]_vars

\* C39 witness: a request was answered 500 because the bucket of its route
\* read a clock earlier than its last_update_time; after the clock caught
\* up, the next request on the same route was denied with 429 by the same
\* bucket, whose count and time had not changed.
C39_Witness ==
    \E t, u \in Conns :
        /\ conn[t].dest = "Err" /\ conn[t].route # 0
        /\ conn[t].client = ErrorResponse
        /\ conn[t].started = 0
        /\ conn[t].log = <<[mw |-> 1, result |-> "Err"]>>
        /\ routes[conn[t].route].middlewares[1].limiter = SetBackBucket
        /\ conn[u].n > conn[t].n
        /\ conn[u].route = conn[t].route
        /\ conn[u].client.status = 429

(***************************************************************************)
MaxBytes == 2

Bytes == {1, 2}

\* What the awaited upgrade request to the upstream yields.
WsOutcomes ==
    { [kind |-> "Ok", status |-> 101, headers |-> <<"upgrade", "sec-websocket-accept">>],
      [kind |-> "Ok", status |-> 200, headers |-> <<"content-type">>],
      [kind |-> "Ok", status |-> 403, headers |-> <<>>],
      [kind |-> "Err", status |-> 0, headers |-> <<>>],
      [kind |-> "Timeout", status |-> 0, headers |-> <<>>] }

NoRelayTask == [pc |-> "none", c2u |-> "none", u2c |-> "none", error |-> FALSE]

\* Both upgraded streams: per direction the bytes written by the sender and
\* not yet copied (c2u, u2c), the bytes delivered (toUp, toCl), the bytes
\* written so far (history: cSent, uSent), and whether each peer still holds
\* its connection open.
NoWire ==
    [c2u |-> <<>>, u2c |-> <<>>, toUp |-> <<>>, toCl |-> <<>>,
     cSent |-> <<>>, uSent |-> <<>>, cOpen |-> TRUE, uOpen |-> TRUE]

\* What server_upgrade returns for the upstream's answer out.
server_upgrade(out) ==
    IF out.kind # "Ok" THEN ErrorResponse
    ELSE IF out.status # 101 THEN Response(out.status, "upstream", out.headers)
    ELSE Response(101, "", out.headers)

\* tokio::try_join! of the two copies: the task ends at the first error, or
\* when both copies have finished.
try_join_copies(r) ==
    IF r.error \/ (r.c2u = "done" /\ r.u2c = "done") THEN [r EXCEPT !.pc = "ended"] ELSE r

InitRelay ==
    /\ NoBreaker
    /\ NoTokenBucket
    /\ NoFixedWindow
    /\ NoListener
    /\ NoTls
    /\ NoAcceptLoop
    /\ NoTranscoding /\ NoReload /\ NoWeightBased /\ NoAcme /\ NoAppLock
    /\ now = 0
    /\ wsCall = [pc |-> "start", upstream |-> NoResult, client |-> NoResponse]
    /\ relay = NoRelayTask
    /\ wire = NoWire

\* server_upgrade up to its await of the upstream: a request without an
\* Upgrade header is answered 400 at once.
ServerUpgrade(hasUpgrade) ==
    /\ wsCall.pc = "start"
    /\ wsCall' = IF hasUpgrade THEN [wsCall EXCEPT !.pc = "awaiting"]
                 ELSE [wsCall EXCEPT !.pc = "returned",
                                     !.client = Response(400, "", <<>>)]
    /\ UNCHANGED <<now, relay, wire>>
    /\ UNCHANGED <<cbVars, tbVars, fwVars, pxVars, tlsVars, lsVars>>
    /\ UNCHANGED <<grpcVars, rlVars, wrrVars, acmeVars, lockVars>>

\* The upstream answers (or the 5 s timeout elapses): server_upgrade returns,
\* having spawned the relay task when the answer is 101.
UpstreamAnswers(out) ==
    /\ wsCall.pc = "awaiting"
    /\ wsCall' = [pc |-> "returned", upstream |-> out, client |-> server_upgrade(out)]
    /\ relay' = IF out.kind = "Ok" /\ out.status = 101
                THEN [relay EXCEPT !.pc = "upgrading"] ELSE relay
    /\ UNCHANGED <<now, wire>>
    /\ UNCHANGED <<cbVars, tbVars, fwVars, pxVars, tlsVars, lsVars>>
    /\ UNCHANGED <<grpcVars, rlVars, wrrVars, acmeVars, lockVars>>

\* try_join!(client_upgrade_fut, upstream_upgrade_fut) completes.
Upgraded(ok) ==
    /\ relay.pc = "upgrading"
    /\ relay' = IF ok THEN [relay EXCEPT !.pc = "copying", !.c2u = "copying",
                                         !.u2c = "copying"]
                ELSE [relay EXCEPT !.pc = "ended", !.error = TRUE]
    /\ UNCHANGED <<now, wsCall, wire>>
    /\ UNCHANGED <<cbVars, tbVars, fwVars, pxVars, tlsVars, lsVars>>
    /\ UNCHANGED <<grpcVars, rlVars, wrrVars, acmeVars, lockVars>>

\* A peer ("client" | "upstream") that got 101 writes one byte.
PeerWrites(peer, b) ==
    /\ wsCall.pc = "returned" /\ wsCall.client.status = 101
    /\ IF peer = "client"
       THEN /\ wire.cOpen /\ Len(wire.cSent) < MaxBytes
            /\ wire' = [wire EXCEPT !.c2u = Append(@, b), !.cSent = Append(@, b)]
       ELSE /\ wire.uOpen /\ Len(wire.uSent) < MaxBytes
            /\ wire' = [wire EXCEPT !.u2c = Append(@, b), !.uSent = Append(@, b)]
    /\ UNCHANGED <<now, wsCall, relay>>
    /\ UNCHANGED <<cbVars, tbVars, fwVars, pxVars, tlsVars, lsVars>>
    /\ UNCHANGED <<grpcVars, rlVars, wrrVars, acmeVars, lockVars>>

\* A peer closes its connection.
PeerCloses(peer) ==
    /\ wsCall.pc = "returned" /\ wsCall.client.status = 101
    /\ IF peer = "client"
       THEN wire.cOpen /\ wire' = [wire EXCEPT !.cOpen = FALSE]
       ELSE wire.uOpen /\ wire' = [wire EXCEPT !.uOpen = FALSE]
    /\ UNCHANGED <<now, wsCall, relay>>
    /\ UNCHANGED <<cbVars, tbVars, fwVars, pxVars, tlsVars, lsVars>>
    /\ UNCHANGED <<grpcVars, rlVars, wrrVars, acmeVars, lockVars>>

\* io::copy(client_reader, upstream_writer) moves one byte; the write fails
\* when the upstream has closed.
CopyClientToUpstream ==
    /\ relay.pc = "copying" /\ relay.c2u = "copying"
    /\ wire.c2u # <<>>
    /\ IF wire.uOpen
       THEN /\ wire' = [wire EXCEPT !.c2u = Tail(@), !.toUp = Append(@, Head(wire.c2u))]
            /\ UNCHANGED relay
       ELSE /\ relay' = try_join_copies([relay EXCEPT !.error = TRUE])
            /\ UNCHANGED wire
    /\ UNCHANGED <<now, wsCall>>
    /\ UNCHANGED <<cbVars, tbVars, fwVars, pxVars, tlsVars, lsVars>>
    /\ UNCHANGED <<grpcVars, rlVars, wrrVars, acmeVars, lockVars>>

\* io::copy(upstream_reader, client_writer) moves one byte; the write fails
\* when the client has closed.
CopyUpstreamToClient ==
    /\ relay.pc = "copying" /\ relay.u2c = "copying"
    /\ wire.u2c # <<>>
    /\ IF wire.cOpen
       THEN /\ wire' = [wire EXCEPT !.u2c = Tail(@), !.toCl = Append(@, Head(wire.u2c))]
            /\ UNCHANGED relay
       ELSE /\ relay' = try_join_copies([relay EXCEPT !.error = TRUE])
            /\ UNCHANGED wire
    /\ UNCHANGED <<now, wsCall>>
    /\ UNCHANGED <<cbVars, tbVars, fwVars, pxVars, tlsVars, lsVars>>
    /\ UNCHANGED <<grpcVars, rlVars, wrrVars, acmeVars, lockVars>>

\* A copy reads end of stream (its sender closed and nothing is left to
\* copy): io::copy returns Ok, the writer is shut down, the copy is done.
CopyEnds(dir) ==
    /\ relay.pc = "copying"
    /\ IF dir = "c2u"
       THEN /\ relay.c2u = "copying" /\ wire.c2u = <<>> /\ ~wire.cOpen
            /\ relay' = try_join_copies([relay EXCEPT !.c2u = "done"])
       ELSE /\ relay.u2c = "copying" /\ wire.u2c = <<>> /\ ~wire.uOpen
            /\ relay' = try_join_copies([relay EXCEPT !.u2c = "done"])
    /\ UNCHANGED <<now, wsCall, wire>>
    /\ UNCHANGED <<cbVars, tbVars, fwVars, pxVars, tlsVars, lsVars>>
    /\ UNCHANGED <<grpcVars, rlVars, wrrVars, acmeVars, lockVars>>

\* A read of a copy fails (the connection was reset).
CopyFails(dir) ==
    /\ relay.pc = "copying"
    /\ IF dir = "c2u" THEN relay.c2u = "copying" ELSE relay.u2c = "copying"
    /\ relay' = try_join_copies([relay EXCEPT !.error = TRUE])
    /\ UNCHANGED <<now, wsCall, wire>>
    /\ UNCHANGED <<cbVars, tbVars, fwVars, pxVars, tlsVars, lsVars>>
    /\ UNCHANGED <<grpcVars, rlVars, wrrVars, acmeVars, lockVars>>

NextRelay ==
    \/ \E hasUpgrade \in BOOLEAN : ServerUpgrade(hasUpgrade)
    \/ \E out \in WsOutcomes : UpstreamAnswers(out)
    \/ \E ok \in BOOLEAN : Upgraded(ok)
    \/ \E peer \in {"client", "upstream"} : \E b \in Bytes : PeerWrites(peer, b)
    \/ \E peer \in {"client", "upstream"} : PeerCloses(peer)
    \/ CopyClientToUpstream
    \/ CopyUpstreamToClient
    \/ \E dir \in {"c2u", "u2c"} : CopyEnds(dir)
    \/ \E dir \in {"c2u", "u2c"} : CopyFails(dir)

SpecRelay == InitRelay /\ [][NextRelay]_vars

IsPrefix(s, t) == Len(s) <= Len(t) /\ \A k \in 1..Len(s) : s[k] = t[k]

\* C22: for an upgrade request, when the upstream answers 101 the client
\* receives 101 with the upstream's response headers and a relay copies the
\* bytes of each side to the other, in order, until either side closes or
\* errors, at which point the relay has terminated; any other upstream status
\* is returned to the client unchanged and no relay is started.
C22_RelayUntilEitherSideEnds ==
    /\ wsCall.pc = "returned" /\ wsCall.upstream.kind = "Ok" =>
          IF wsCall.upstream.status = 101
          THEN /\ wsCall.client.status = 101
               /\ wsCall.client.headers = wsCall.upstream.headers
               /\ relay.pc # "none"
          ELSE /\ wsCall.client =
                     Response(wsCall.upstream.status, "upstream", wsCall.upstream.headers)
               /\ relay.pc = "none"
    /\ IsPrefix(wire.toUp, wire.cSent) /\ IsPrefix(wire.toCl, wire.uSent)
    /\ relay.pc = "copying" => relay.c2u = "copying" /\ relay.u2c = "copying"

(***************************************************************************)
(* proxy/http1/http_proxy.rs, proxy/http1/grpc_client.rs: a request whose  *)
(* destination is RouterDestination::Grpc, transcoded to a unary gRPC call.*)
(***************************************************************************)
MaxGrpcRequests == 2

\* A transcoded request: the number of non-empty segments of request_path,
\* whether the descriptor pool knows parts[0] as a service and parts[1] as
\* one of its methods, whether the body deserialises into the method's
\* input message, and whether GrpcClients holds a channel for the endpoint.
GrpcRequests ==
    [segments : 0..3, service : {"known", "unknown"}, method : {"known", "unknown"},
     body : {"valid", "invalid"}, channel : {"found", "missing"}]

GrpcCodes ==
    {"INVALID_ARGUMENT", "UNAUTHENTICATED", "PERMISSION_DENIED", "NOT_FOUND",
     "UNAVAILABLE", "DEADLINE_EXCEEDED", "INTERNAL"}

\* What channel.ready() and channel.unary() yield: the response message, a
\* tonic::Status with an error code, or a channel that never gets ready.
GrpcReplies ==
    {[kind |-> "Ok", code |-> "OK"], [kind |-> "NotReady", code |-> ""]} \cup
    {[kind |-> "Status", code |-> c] : c \in GrpcCodes}

NoGrpcReply == [kind |-> "None", code |-> ""]

\* The Grpc arm of proxy() up to the await inside do_request: "call" when
\* the unary call is made, "err" when a `?` or the segment test returns Err.
grpc_prepare(req) ==
    IF req.channel = "missing" THEN "err"          \* get_client(..).await?
    ELSE IF req.segments < 2 THEN "err"            \* parts.len() < 2
    ELSE IF req.service = "unknown" THEN "err"     \* get_service_by_name(..).ok_or_else
    ELSE IF req.method = "unknown" THEN "err"      \* find(..).ok_or_else
    ELSE IF req.body = "invalid" THEN "err"        \* DynamicMessage::deserialize(..)?
    ELSE "call"

\* The rest of the arm: `channel.ready().await?`, `channel.unary(..).await?`,
\* then 200 with Content-Type: application/json.
grpc_finish(reply) ==
    IF reply.kind = "Ok"
    THEN Response(200, "json", [content_type |-> "application/json"])
    ELSE ErrorResponse

IdleGrpcCall ==
    [pc |-> "idle", req |-> CHOOSE r \in GrpcRequests : TRUE, reply |-> NoGrpcReply,
     client |-> NoResponse]

InitTranscoding ==
    /\ NoBreaker
    /\ NoTokenBucket
    /\ NoFixedWindow
    /\ NoListener
    /\ NoTls
    /\ NoAcceptLoop
    /\ NoRelay /\ NoReload /\ NoWeightBased /\ NoAcme /\ NoAppLock
    /\ now = 0
    /\ grpcCall = IdleGrpcCall
    /\ nGrpc = 0

\* A request for a Grpc destination arrives: the arm runs up to the call.
GrpcReceive(req) ==
    /\ grpcCall.pc \in {"idle", "done"}
    /\ nGrpc < MaxGrpcRequests
    /\ nGrpc' = nGrpc + 1
    /\ grpcCall' = IF grpc_prepare(req) = "call"
                   THEN [pc |-> "calling", req |-> req, reply |-> NoGrpcReply,
                         client |-> NoResponse]
                   ELSE [pc |-> "done", req |-> req, reply |-> NoGrpcReply,
                         client |-> ErrorResponse]
    /\ UNCHANGED now
    /\ UNCHANGED <<cbVars, tbVars, fwVars, pxVars, tlsVars, lsVars>>
    /\ UNCHANGED <<wsVars, rlVars, wrrVars, acmeVars, lockVars>>

\* The unary call completes.
GrpcReturns(reply) ==
    /\ grpcCall.pc = "calling"
    /\ grpcCall' = [grpcCall EXCEPT !.pc = "done", !.reply = reply,
                                    !.client = grpc_finish(reply)]
    /\ UNCHANGED <<now, nGrpc>>
    /\ UNCHANGED <<cbVars, tbVars, fwVars, pxVars, tlsVars, lsVars>>
    /\ UNCHANGED <<wsVars, rlVars, wrrVars, acmeVars, lockVars>>

NextTranscoding ==
    \/ \E req \in GrpcRequests : GrpcReceive(req)
    \/ \E reply \in GrpcReplies : GrpcReturns(reply)

SpecTranscoding == InitTranscoding /\ [][NextTranscoding]_vars

\* The HTTP status that stands for a gRPC error code.
HttpOfGrpc(code) ==
    CASE code = "INVALID_ARGUMENT" -> 400
      [] code = "UNAUTHENTICATED" -> 401
      [] code = "PERMISSION_DENIED" -> 403
      [] code = "NOT_FOUND" -> 404
      [] code = "UNAVAILABLE" -> 503
      [] code = "DEADLINE_EXCEEDED" -> 504
      [] OTHER -> 500

\* C23: a transcoded request with fewer than two path segments is answered
\* 400, one naming an unknown service or method 404, one whose body does not
\* deserialise into the input message 400; a gRPC error status is answered
\* with its HTTP counterpart (400, 401, 403, 404, 503, 504, else 500), and a
\* successful call 200 with Content-Type: application/json.
C23_TranscodingStatuses ==
    grpcCall.pc = "done" /\ grpcCall.req.channel = "found"
                         /\ grpcCall.reply.kind # "NotReady" =>
        LET req == grpcCall.req
            reply == grpcCall.reply
            client == grpcCall.client
        IN  IF req.segments < 2 THEN client.status = 400
            ELSE IF req.service = "unknown" \/ req.method = "unknown"
                 THEN client.status = 404
            ELSE IF req.body = "invalid" THEN client.status = 400
            ELSE IF reply.kind = "Status" THEN client.status = HttpOfGrpc(reply.code)
            ELSE /\ client.status = 200
                 /\ client.headers = [content_type |-> "application/json"]

(***************************************************************************)
(* The control plane's POST /reload (its handler is not part of the        *)
(* sources at hand; modelled after the interface description and the       *)
(* VALIDATION text of vojo/cli.rs, Commands::Reload).                      *)
(***************************************************************************)
MaxReloads == 2

ListenPorts == {8080, 8443, 9000}

\* The servers of a configuration: one to two services on distinct ports.
ServerLists ==
    {<<p>> : p \in ListenPorts} \cup
    {s \in {<<p, q>> : p \in ListenPorts, q \in ListenPorts} : s[1] # s[2]}

\* The bodies POST /reload can receive: a configuration (its services'
\* listen ports in file order, its routes by version) or malformed YAML.
ReloadBodies ==
    [kind : {"config"}, servers : ServerLists, routes : {1, 2}] \cup
    {[kind |-> "malformed", servers |-> <<>>, routes |-> 0]}

port_set(servers) == {servers[i] : i \in 1..Len(servers)}

\* A comparison of the number of ports alone.
ports_differ_by_count(incoming, current) == Len(incoming) # Len(current)

\* The precise-match rule: both the number of ports and the port values.
ports_differ(incoming, current) ==
    Len(incoming) # Len(current) \/ port_set(incoming) # port_set(current)

\* The answer of POST /reload to body while cfg is running: [status, config]
reload(body, cfg) ==
    IF body.kind = "malformed" THEN [status |-> 400, config |-> cfg]
    ELSE IF ports_differ(body.servers, cfg.servers) THEN [status |-> 409, config |-> cfg]
    ELSE [status |-> 200, config |-> [servers |-> body.servers, routes |-> body.routes]]

InitReload ==
    /\ NoBreaker
    /\ NoTokenBucket
    /\ NoFixedWindow
    /\ NoListener
    /\ NoTls
    /\ NoAcceptLoop
    /\ NoRelay /\ NoTranscoding /\ NoWeightBased /\ NoAcme /\ NoAppLock
    /\ now = 0
    /\ running \in [servers : ServerLists, routes : {1}, served : {0}]
    /\ reloadAnswer = 0
    /\ nReloads = 0
    /\ restarts = 0

\* POST /reload with body: on 200 the configuration is swapped, the
\* listeners stay as they are.
Reload(body) ==
    /\ nReloads < MaxReloads
    /\ nReloads' = nReloads + 1
    /\ \E r \in {reload(body, running)} :
          /\ reloadAnswer' = r.status
          /\ running' = [running EXCEPT !.servers = r.config.servers,
                                        !.routes = r.config.routes]
    /\ UNCHANGED <<now, restarts>>
    /\ UNCHANGED <<cbVars, tbVars, fwVars, pxVars, tlsVars, lsVars>>
    /\ UNCHANGED <<wsVars, grpcVars, wrrVars, acmeVars, lockVars>>

\* A request arrives on a listener: it is routed by the running routes.
RoutedRequest ==
    /\ running' = [running EXCEPT !.served = running.routes]
    /\ UNCHANGED <<now, reloadAnswer, nReloads, restarts>>
    /\ UNCHANGED <<cbVars, tbVars, fwVars, pxVars, tlsVars, lsVars>>
    /\ UNCHANGED <<wsVars, grpcVars, wrrVars, acmeVars, lockVars>>

NextReload ==
    \/ \E body \in ReloadBodies : Reload(body)
    \/ RoutedRequest

SpecReload == InitReload /\ [][NextReload]_vars

\* C24: POST /reload of a configuration is rejected with 409, the running
\* configuration staying as it is, iff the listen ports of the incoming
\* configuration are not exactly those running; a configuration with the
\* same ports is accepted with 200, is the one that routes the requests
\* that follow, and no listener is restarted.
C24_ReloadKeepsPorts ==
    [][/\ \A body \in ReloadBodies :
             Reload(body) /\ body.kind = "config" =>
                 /\ reloadAnswer' = 409 <=>
                        port_set(body.servers) # port_set(running.servers)
                 /\ reloadAnswer' = 409 => running' = running
                 /\ reloadAnswer' # 409 =>
                        /\ reloadAnswer' = 200
                        /\ running'.servers = body.servers
                        /\ running'.routes = body.routes
                        /\ restarts' = restarts
       /\ RoutedRequest => running'.served = running.routes]_vars

\* A reload to the second version of the routes was accepted and a later
\* request was routed by it; the ports are those the gateway started with.
C24_Witness ==
    reloadAnswer = 200 /\ running.routes = 2 /\ running.served = 2 /\ restarts = 0

(***************************************************************************)
(* Router::WeightBased (vojo/router.rs is not part of the sources at hand; *)
(* modelled after the description of the selection algorithms: smooth      *)
(* weighted round-robin over the live routes).                             *)
(***************************************************************************)
MaxWeight == 3

MaxPicks == 12

RouteIds == 1..3

\* WeightBasedRoute{routes: [WeightedRouteItem{weight, index, ..}]}: index is
\* the route's counter (0 when configured), alive its liveness. Which of two
\* equal maximal counters wins is a property of the implementation: the
\* first or the last in declaration order (tie).
WeightBasedRoute(weights, alive, tie) ==
    [routes |-> [i \in RouteIds |-> [weight |-> weights[i], index |-> 0,
                                     alive |-> i \in alive]],
     tie |-> tie]

LiveRoutes(r) == {i \in RouteIds : r.routes[i].alive}

RECURSIVE SumOver(_, _)
SumOver(f, S) ==
    IF S = {} THEN 0
    ELSE LET i == CHOOSE x \in S : TRUE IN f[i] + SumOver(f, S \ {i})

TotalWeight(r) == SumOver([i \in RouteIds |-> r.routes[i].weight], LiveRoutes(r))

\* Step one of a pick: every live route's counter grows by its weight.
add_weights(r) ==
    [r EXCEPT !.routes = [i \in RouteIds |->
        IF r.routes[i].alive
        THEN [r.routes[i] EXCEPT !.index = @ + r.routes[i].weight]
        ELSE r.routes[i]]]

\* Step two: the live route with the maximum counter.
max_counter(r) ==
    LET best == {i \in LiveRoutes(r) :
                    \A j \in LiveRoutes(r) : r.routes[j].index <= r.routes[i].index}
    IN  IF r.tie = "first" THEN CHOOSE i \in best : \A j \in best : i <= j
        ELSE CHOOSE i \in best : \A j \in best : j <= i

\* A pick that always takes the live route of the greatest weight.
get_route_greatest_weight(r) ==
    IF LiveRoutes(r) = {} THEN [chosen |-> 0, router |-> r]
    ELSE [chosen |-> CHOOSE i \in LiveRoutes(r) :
                        \A j \in LiveRoutes(r) : r.routes[j].weight <= r.routes[i].weight,
          router |-> r]

\* WeightBased get_route: [chosen, router]; chosen is 0 for NoHealthyUpstream.
get_route(r) ==
    IF LiveRoutes(r) = {} THEN [chosen |-> 0, router |-> r]
    ELSE LET added == add_weights(r)
             c == max_counter(added)
         IN  [chosen |-> c,
              router |-> [added EXCEPT !.routes[c].index = @ - TotalWeight(r)]]

InitWeightBased ==
    /\ NoBreaker
    /\ NoTokenBucket
    /\ NoFixedWindow
    /\ NoListener
    /\ NoTls
    /\ NoAcceptLoop
    /\ NoRelay /\ NoTranscoding /\ NoReload /\ NoAcme /\ NoAppLock
    /\ now = 0
    /\ \E weights \in [RouteIds -> 1..MaxWeight] : \E alive \in SUBSET RouteIds :
          \E tie \in {"first", "last"} : wrr = WeightBasedRoute(weights, alive, tie)
    /\ picks = <<>>
    /\ nPicks = 0

\* A request is routed: one pick. picks lists the picks of the current run
\* of TotalWeight picks, the pick that completes the run included.
Pick ==
    /\ nPicks < MaxPicks
    /\ nPicks' = nPicks + 1
    /\ \E g \in {get_route(wrr)} :
          /\ wrr' = g.router
          /\ picks' = IF g.chosen = 0 THEN <<>>
                      ELSE IF Len(picks) >= TotalWeight(wrr) THEN <<g.chosen>>
                      ELSE Append(picks, g.chosen)
    /\ UNCHANGED now
    /\ UNCHANGED <<cbVars, tbVars, fwVars, pxVars, tlsVars, lsVars>>
    /\ UNCHANGED <<wsVars, grpcVars, rlVars, acmeVars, lockVars>>

NextWeightBased == Pick

SpecWeightBased == InitWeightBased /\ [][NextWeightBased]_vars

\* How often route i occurs in the picks s.
TimesPicked(s, i) == Cardinality({k \in 1..Len(s) : s[k] = i})

\* The six picks of weights 1, 2, 3 (routes A = 1, B = 2, C = 3).
SixPicks(tie) ==
    IF tie = "first" THEN <<3, 2, 1, 3, 2, 3>> ELSE <<3, 2, 3, 1, 2, 3>>

\* C25: over the live routes, starting from zeroed counters, every run of
\* W = (sum of the weights) consecutive picks chooses each route exactly as
\* many times as its weight and leaves the counters at zero; for weights
\* 1, 2, 3 the six picks are one fixed interleaving of A once, B twice and
\* C three times.
C25_SmoothWeighted ==
    /\ \A k \in 1..Len(picks) : picks[k] \in LiveRoutes(wrr)
    /\ Len(picks) <= TotalWeight(wrr)
    /\ Len(picks) = TotalWeight(wrr) =>
          /\ \A i \in LiveRoutes(wrr) : TimesPicked(picks, i) = wrr.routes[i].weight
          /\ \A i \in RouteIds : wrr.routes[i].index = 0
    /\ (LiveRoutes(wrr) = RouteIds /\ \A i \in RouteIds : wrr.routes[i].weight = i)
          => IsPrefix(picks, SixPicks(wrr.tie))

\* All three routes are live with weights 1, 2, 3 and the second run of six
\* picks has just ended.
C25_Witness ==
    /\ LiveRoutes(wrr) = RouteIds
    /\ \A i \in RouteIds : wrr.routes[i].weight = i
    /\ nPicks = 12
    /\ Len(picks) = 6

(***************************************************************************)
(* vojo/lets_encrypt.rs: the challenge server of the HTTP-01 validation,   *)
(* acme_router and its handler http01_challenge.                           *)
(***************************************************************************)
MaxAcmeRequests == 2

Tokens == {"t1", "t2"}

KeyAuthorizations == {"k1", "k2"}

\* The challenge maps the server can be started with.
ChallengeMaps == UNION {[S -> KeyAuthorizations] : S \in SUBSET Tokens}

\* A request to the server: its method and its path, as whether the path
\* starts with /.well-known/acme-challenge/ and what follows that prefix
\* (for another path: the whole path).
AcmeRequests ==
    [method : {"GET", "POST", "PUT"}, prefix : {TRUE},
     rest : Tokens \cup {"", "t3", "t1/x"}] \cup
    [method : {"GET", "POST", "PUT"}, prefix : {FALSE}, rest : {"/", "/t1"}]

\* fn http01_challenge(State(challenges), Path(token))
http01_challenge(chs, token) ==
    IF token \in DOMAIN chs THEN Response(200, chs[token], <<>>)
    ELSE Response(404, "", <<>>)

\* acme_router: route("/.well-known/acme-challenge/{*rest}", any(http01_challenge));
\* the wildcard needs a non-empty rest, any(..) accepts every method, and a
\* path without a route is answered 404 by the Router.
acme_router(chs, req) ==
    IF req.prefix /\ req.rest # "" THEN http01_challenge(chs, req.rest)
    ELSE Response(404, "", <<>>)

NoAcmeRequest == [method |-> "", prefix |-> FALSE, rest |-> ""]

\* Connections the challenge server accepts in a run.
MaxChallengeConns == 2

\* with_graceful_shutdown(async { let _ = shutdown_rx.await; .. }): the
\* signal future ends when the oneshot sender has sent or was dropped (the
\* receiver then yields Err, which `let _` discards).  The first definition
\* is a receiver that only a sent message wakes.
oneshot_resolved_by_send_only(tx) == tx = "sent"

oneshot_resolved(tx) == tx \in {"sent", "dropped"}

\* A `?` of start_request2 after the server was spawned: the function
\* returns Err, its locals shutdown_tx and server_handle are dropped (a
\* dropped JoinHandle detaches the task).
returns_err(i) == [i EXCEPT !.pc = "returned", !.tx = "dropped", !.result = "err"]

\* `let _ = shutdown_tx.send(()); server_handle.await.ok();`
sends_shutdown(i, result) == [i EXCEPT !.pc = "joining", !.tx = "sent", !.result = result]

InitAcme ==
    /\ NoBreaker
    /\ NoTokenBucket
    /\ NoFixedWindow
    /\ NoListener
    /\ NoTls
    /\ NoAcceptLoop
    /\ NoRelay /\ NoTranscoding /\ NoReload /\ NoWeightBased /\ NoAppLock
    /\ now = 0
    /\ challenges \in ChallengeMaps
    /\ acmeReq = NoAcmeRequest
    /\ acmeRes = NoResponse
    /\ nAcme = 0
    /\ issuance = [pc |-> "spawn", tx |-> "none", server |-> "none", conns |-> 0,
                   result |-> "none"]
    /\ nConns = 0

\* spawn_challenge_server after the challenge map is built: bind 0.0.0.0:80
\* and spawn the axum server; an Err (of the bind, or earlier of an
\* authorization) is returned by start_request2 with `?`, no server running.
SpawnChallengeServer(ok) ==
    /\ issuance.pc = "spawn"
    /\ issuance' = IF ok
                   THEN [issuance EXCEPT !.pc = "poll_ready", !.tx = "held",
                                         !.server = "serving"]
                   ELSE [issuance EXCEPT !.pc = "returned", !.result = "err"]
    /\ UNCHANGED <<now, challenges, acmeReq, acmeRes, nAcme, nConns>>
    /\ UNCHANGED <<cbVars, tbVars, fwVars, pxVars, tlsVars, lsVars>>
    /\ UNCHANGED <<wsVars, grpcVars, rlVars, wrrVars, lockVars>>

\* order.poll_ready(..).await? and the test of the status.
PollReady(status) ==
    /\ issuance.pc = "poll_ready"
    /\ issuance' = CASE status = "Err" -> returns_err(issuance)
                     [] status = "Ready" -> [issuance EXCEPT !.pc = "finalize"]
                     [] OTHER -> sends_shutdown(issuance, "err")
    /\ UNCHANGED <<now, challenges, acmeReq, acmeRes, nAcme, nConns>>
    /\ UNCHANGED <<cbVars, tbVars, fwVars, pxVars, tlsVars, lsVars>>
    /\ UNCHANGED <<wsVars, grpcVars, rlVars, wrrVars, lockVars>>

\* order.finalize().await?
Finalize(ok) ==
    /\ issuance.pc = "finalize"
    /\ issuance' = IF ok THEN [issuance EXCEPT !.pc = "poll_certificate"]
                   ELSE returns_err(issuance)
    /\ UNCHANGED <<now, challenges, acmeReq, acmeRes, nAcme, nConns>>
    /\ UNCHANGED <<cbVars, tbVars, fwVars, pxVars, tlsVars, lsVars>>
    /\ UNCHANGED <<wsVars, grpcVars, rlVars, wrrVars, lockVars>>

\* order.poll_certificate(..).await? and, on Ok, the shutdown message.
PollCertificate(ok) ==
    /\ issuance.pc = "poll_certificate"
    /\ issuance' = IF ok THEN sends_shutdown(issuance, "ok") ELSE returns_err(issuance)
    /\ UNCHANGED <<now, challenges, acmeReq, acmeRes, nAcme, nConns>>
    /\ UNCHANGED <<cbVars, tbVars, fwVars, pxVars, tlsVars, lsVars>>
    /\ UNCHANGED <<wsVars, grpcVars, rlVars, wrrVars, lockVars>>

\* server_handle.await returns once the server task has ended; the function
\* returns the Err of the status test or Ok((private_key_pem, cert_chain_pem)).
ServerHandleJoined ==
    /\ issuance.pc = "joining"
    /\ issuance.server = "stopped"
    /\ issuance' = [issuance EXCEPT !.pc = "returned"]
    /\ UNCHANGED <<now, challenges, acmeReq, acmeRes, nAcme, nConns>>
    /\ UNCHANGED <<cbVars, tbVars, fwVars, pxVars, tlsVars, lsVars>>
    /\ UNCHANGED <<wsVars, grpcVars, rlVars, wrrVars, lockVars>>

\* The server task: the shutdown signal ends, axum::serve stops accepting
\* and waits for the open connections.
GracefulShutdown ==
    /\ issuance.server = "serving"
    /\ oneshot_resolved(issuance.tx)
    /\ issuance' = [issuance EXCEPT !.server = "draining"]
    /\ UNCHANGED <<now, challenges, acmeReq, acmeRes, nAcme, nConns>>
    /\ UNCHANGED <<cbVars, tbVars, fwVars, pxVars, tlsVars, lsVars>>
    /\ UNCHANGED <<wsVars, grpcVars, rlVars, wrrVars, lockVars>>

\* No connection is left: axum::serve returns and the server task ends.
ServeReturns ==
    /\ issuance.server = "draining"
    /\ issuance.conns = 0
    /\ issuance' = [issuance EXCEPT !.server = "stopped"]
    /\ UNCHANGED <<now, challenges, acmeReq, acmeRes, nAcme, nConns>>
    /\ UNCHANGED <<cbVars, tbVars, fwVars, pxVars, tlsVars, lsVars>>
    /\ UNCHANGED <<wsVars, grpcVars, rlVars, wrrVars, lockVars>>

\* The running server accepts a connection.
ChallengeConnOpens ==
    /\ issuance.server = "serving"
    /\ nConns < MaxChallengeConns
    /\ nConns' = nConns + 1
    /\ issuance' = [issuance EXCEPT !.conns = @ + 1]
    /\ UNCHANGED <<now, challenges, acmeReq, acmeRes, nAcme>>
    /\ UNCHANGED <<cbVars, tbVars, fwVars, pxVars, tlsVars, lsVars>>
    /\ UNCHANGED <<wsVars, grpcVars, rlVars, wrrVars, lockVars>>

\* A connection ends (its peer closes it, or the draining server does).
ChallengeConnCloses ==
    /\ issuance.conns > 0
    /\ issuance' = [issuance EXCEPT !.conns = @ - 1]
    /\ UNCHANGED <<now, challenges, acmeReq, acmeRes, nAcme, nConns>>
    /\ UNCHANGED <<cbVars, tbVars, fwVars, pxVars, tlsVars, lsVars>>
    /\ UNCHANGED <<wsVars, grpcVars, rlVars, wrrVars, lockVars>>

\* The server answers one request on an open connection.
AcmeRequest(req) ==
    /\ issuance.server = "serving"
    /\ issuance.conns > 0
    /\ nAcme < MaxAcmeRequests
    /\ nAcme' = nAcme + 1
    /\ acmeReq' = req
    /\ acmeRes' = acme_router(challenges, req)
    /\ UNCHANGED <<now, challenges, issuance, nConns>>
    /\ UNCHANGED <<cbVars, tbVars, fwVars, pxVars, tlsVars, lsVars>>
    /\ UNCHANGED <<wsVars, grpcVars, rlVars, wrrVars, lockVars>>

NextAcme ==
    \/ \E ok \in BOOLEAN : SpawnChallengeServer(ok)
    \/ \E status \in {"Ready", "Invalid", "Err"} : PollReady(status)
    \/ \E ok \in BOOLEAN : Finalize(ok)
    \/ \E ok \in BOOLEAN : PollCertificate(ok)
    \/ ServerHandleJoined
    \/ GracefulShutdown
    \/ ServeReturns
    \/ ChallengeConnOpens
    \/ ChallengeConnCloses
    \/ \E req \in AcmeRequests : AcmeRequest(req)

SpecAcme == InitAcme /\ [][NextAcme]_vars

\* C26: the challenge server answers GET /.well-known/acme-challenge/<token>
\* with 200 and exactly the key authorization registered for <token> when
\* the token is in the challenge map, and every other request with 404.
C26_OnlyGetOfKnownToken ==
    nAcme > 0 =>
        IF acmeReq.method = "GET" /\ acmeReq.prefix /\ acmeReq.rest \in DOMAIN challenges
        THEN acmeRes.status = 200 /\ acmeRes.body = challenges[acmeReq.rest]
        ELSE acmeRes.status = 404

\* The server task is polled, the validation clients end their
\* connections, and the awaiting start_request2 is woken.
SpecAcmeFair ==
    /\ SpecAcme
    /\ WF_vars(GracefulShutdown)
    /\ WF_vars(ServeReturns)
    /\ WF_vars(ChallengeConnCloses)
    /\ WF_vars(ServerHandleJoined)

\* C32: once the challenge server was started, every way start_request2
\* ends (status not Ready, an error of poll_ready, finalize or
\* poll_certificate, success) leads to the server having stopped; when
\* start_request2 returns Ok, and when it returns the Err of a status that
\* is not Ready, the server has stopped before the return.
C32_ServerStopsOnEveryExit ==
    /\ (issuance.pc = "returned" /\ issuance.server # "none") ~> (issuance.server = "stopped")
    /\ [](issuance.pc = "returned" /\ issuance.tx = "sent" => issuance.server = "stopped")
    /\ [](issuance.pc = "returned" /\ issuance.result = "ok" =>
             issuance.tx = "sent" /\ issuance.server = "stopped")

\* C32 witness: start_request2 returned the Err of finalize or of a poll
\* while a connection was open, and the server has stopped since.
C32_Witness ==
    /\ issuance.pc = "returned"
    /\ issuance.result = "err"
    /\ issuance.tx = "dropped"
    /\ issuance.server = "stopped"
    /\ nConns > 0

(***************************************************************************)
(* The Mutex<AppConfig> of SharedConfig as the request tasks use it:       *)
(* proxy() calls get_destination, which locks it, and then awaits the      *)
(* upstream. The starting listeners lock it as well (AppClients::new,      *)
(* start_proxy).                                                           *)
(***************************************************************************)
NumLockTasks == 2

MaxLocked == 4

LockTasks == 1..NumLockTasks

\* The holder id of a starting listener.
StartingListener == NumLockTasks + 1

\* What get_destination returns: a destination that proxy() then awaits
\* (the upstream request, the upgrade and its relay, the gRPC call, the
\* file), or an answer that needs no upstream.
AwaitedDestinations == {"Http", "Upgrade", "Grpc", "File"}

DestinationKinds == AwaitedDestinations \cup {"Preflight", "NotAllowed", "NoMatchFound", "Err"}

\* The mutex once get_destination has returned to proxy() while holder held
\* it, had the guard been handed to proxy() for the time of the await.
guard_kept_while_awaiting(holder, d) == IF d \in AwaitedDestinations THEN holder ELSE 0

\* The mutex once get_destination has returned: the guard app_config is a
\* local of the function and is dropped on every return.
guard_dropped(holder, d) == 0

\* The holder id of the admin handler that answers GET /appConfig.
AdminHandler == NumLockTasks + 2

\* The tasks of the supervisor that take the mutex.
SupervisorTasks == {StartingListener, AdminHandler}

\* The middlewares whose state sits in a cell of its own, Arc<Mutex<..>>,
\* in the order the configuration lists them.
CellOrder == <<"RateLimit", "CircuitBreaker">>

MiddlewareCells == {CellOrder[i] : i \in 1..Len(CellOrder)}

\* The outcome of a response is recorded by the circuit breaker only.
RecordingCells == {"CircuitBreaker"}

\* Critical sections of a cell: the check phase, record_outcome, and the
\* serialisation of the cell's content.
\* A record_outcome that goes back to the configuration under its guard.
config_requested_in_record(phase) == IF phase = "record" THEN "config" ELSE "none"

\* The lock that the code between a cell's lock() and the drop of its
\* guard asks for: is_call_allowed and state_info, should_limit,
\* record_success and record_failure, T::serialize take no lock.
requested_in_critical_section(phase) == "none"

\* The holder of a cell can run its critical section to the end.
can_finish(holder, phase) ==
    \/ requested_in_critical_section(phase) = "none"
    \/ appLock = 0

IdleRequest == [pc |-> "idle", dest |-> "none", cell |-> "none"]

FreeCells == [c \in MiddlewareCells |-> 0]

InitAppLock ==
    /\ NoBreaker
    /\ NoTokenBucket
    /\ NoFixedWindow
    /\ NoListener
    /\ NoTls
    /\ NoAcceptLoop
    /\ NoRelay /\ NoTranscoding /\ NoReload /\ NoWeightBased /\ NoAcme
    /\ now = 0
    /\ appLock = 0
    /\ rq = [t \in LockTasks |-> IdleRequest]
    /\ nLocked = 0
    /\ mwLock = FreeCells
    /\ ser = 0

\* get_destination of task t reaches shared_data.lock() and gets the mutex.
LockConfig(t) ==
    /\ rq[t].pc \in {"idle", "done"}
    /\ appLock = 0
    /\ nLocked < MaxLocked
    /\ nLocked' = nLocked + 1
    /\ appLock' = t
    /\ rq' = [rq EXCEPT ![t] = [pc |-> "get_destination", dest |-> "none", cell |-> "none"]]
    /\ UNCHANGED <<now, mwLock, ser>>
    /\ UNCHANGED <<cbVars, tbVars, fwVars, pxVars, tlsVars, lsVars>>
    /\ UNCHANGED <<wsVars, grpcVars, rlVars, wrrVars, acmeVars>>

\* is_allowed of the matched route reaches the check_request of the
\* middleware in cell c, which calls self.lock().
ReachCell(t, c) ==
    /\ rq[t].pc = "get_destination"
    /\ rq[t].cell = "none"
    /\ rq' = [rq EXCEPT ![t].cell = c]
    /\ UNCHANGED <<now, appLock, nLocked, mwLock, ser>>
    /\ UNCHANGED <<cbVars, tbVars, fwVars, pxVars, tlsVars, lsVars>>
    /\ UNCHANGED <<wsVars, grpcVars, rlVars, wrrVars, acmeVars>>

\* self.lock() of that check_request returns the guard of the cell.
CheckLocks(t) ==
    /\ rq[t].pc = "get_destination"
    /\ rq[t].cell # "none"
    /\ mwLock[rq[t].cell] = 0
    /\ mwLock' = [mwLock EXCEPT ![rq[t].cell] = t]
    /\ UNCHANGED <<now, appLock, rq, nLocked, ser>>
    /\ UNCHANGED <<cbVars, tbVars, fwVars, pxVars, tlsVars, lsVars>>
    /\ UNCHANGED <<wsVars, grpcVars, rlVars, wrrVars, acmeVars>>

\* check_request returns its CheckResult; the guard of the cell is dropped.
CheckReturns(t) ==
    /\ rq[t].pc = "get_destination"
    /\ rq[t].cell # "none"
    /\ mwLock[rq[t].cell] = t
    /\ can_finish(t, "check")
    /\ mwLock' = [mwLock EXCEPT ![rq[t].cell] = 0]
    /\ rq' = [rq EXCEPT ![t].cell = "none"]
    /\ UNCHANGED <<now, appLock, nLocked, ser>>
    /\ UNCHANGED <<cbVars, tbVars, fwVars, pxVars, tlsVars, lsVars>>
    /\ UNCHANGED <<wsVars, grpcVars, rlVars, wrrVars, acmeVars>>

\* get_destination of task t returns d: matching, the check phase, the route
\* selection and the copy of the middleware list are done; proxy() goes on
\* to await the destination, or answers at once.
DestinationFound(t, d) ==
    /\ rq[t].pc = "get_destination"
    /\ rq[t].cell = "none"
    /\ appLock' = guard_dropped(appLock, d)
    /\ rq' = [rq EXCEPT ![t] = [pc |-> IF d \in AwaitedDestinations THEN "awaiting"
                                       ELSE "done",
                                dest |-> d, cell |-> "none"]]
    /\ UNCHANGED <<now, nLocked, mwLock, ser>>
    /\ UNCHANGED <<cbVars, tbVars, fwVars, pxVars, tlsVars, lsVars>>
    /\ UNCHANGED <<wsVars, grpcVars, rlVars, wrrVars, acmeVars>>

\* The awaited upstream request, relay, gRPC call or file of task t is done.
\* handle_before_response then calls record_outcome on the route's
\* middlewares: with a circuit breaker among them (c its cell) the task
\* reaches self.lock() of record_outcome, with none (c = "none") it is done.
AwaitCompletes(t, c) ==
    /\ rq[t].pc = "awaiting"
    /\ rq' = [rq EXCEPT ![t].pc = IF c = "none" THEN "done" ELSE "record_outcome",
                        ![t].cell = c]
    /\ UNCHANGED <<now, appLock, nLocked, mwLock, ser>>
    /\ UNCHANGED <<cbVars, tbVars, fwVars, pxVars, tlsVars, lsVars>>
    /\ UNCHANGED <<wsVars, grpcVars, rlVars, wrrVars, acmeVars>>

\* self.lock() of record_outcome returns the guard of the cell.
RecordLocks(t) ==
    /\ rq[t].pc = "record_outcome"
    /\ mwLock[rq[t].cell] = 0
    /\ mwLock' = [mwLock EXCEPT ![rq[t].cell] = t]
    /\ UNCHANGED <<now, appLock, rq, nLocked, ser>>
    /\ UNCHANGED <<cbVars, tbVars, fwVars, pxVars, tlsVars, lsVars>>
    /\ UNCHANGED <<wsVars, grpcVars, rlVars, wrrVars, acmeVars>>

\* record_outcome has recorded the success or the failure and returns; the
\* guard of the cell is dropped.
RecordReturns(t) ==
    /\ rq[t].pc = "record_outcome"
    /\ mwLock[rq[t].cell] = t
    /\ can_finish(t, "record")
    /\ mwLock' = [mwLock EXCEPT ![rq[t].cell] = 0]
    /\ rq' = [rq EXCEPT ![t].pc = "done", ![t].cell = "none"]
    /\ UNCHANGED <<now, appLock, nLocked, ser>>
    /\ UNCHANGED <<cbVars, tbVars, fwVars, pxVars, tlsVars, lsVars>>
    /\ UNCHANGED <<wsVars, grpcVars, rlVars, wrrVars, acmeVars>>

\* A starting listener reads its part of the configuration under the mutex.
ListenerLocks ==
    /\ appLock = 0
    /\ nLocked < MaxLocked
    /\ nLocked' = nLocked + 1
    /\ appLock' = StartingListener
    /\ UNCHANGED <<now, rq, mwLock, ser>>
    /\ UNCHANGED <<cbVars, tbVars, fwVars, pxVars, tlsVars, lsVars>>
    /\ UNCHANGED <<wsVars, grpcVars, rlVars, wrrVars, acmeVars>>

ListenerUnlocks ==
    /\ appLock = StartingListener
    /\ appLock' = 0
    /\ UNCHANGED <<now, rq, nLocked, mwLock, ser>>
    /\ UNCHANGED <<cbVars, tbVars, fwVars, pxVars, tlsVars, lsVars>>
    /\ UNCHANGED <<wsVars, grpcVars, rlVars, wrrVars, acmeVars>>

\* GET /appConfig: the admin handler takes the mutex and starts to write
\* the configuration out; ser is the cell it comes to next.
SerializeBegins ==
    /\ appLock = 0
    /\ ser = 0
    /\ nLocked < MaxLocked
    /\ nLocked' = nLocked + 1
    /\ appLock' = AdminHandler
    /\ ser' = 1
    /\ UNCHANGED <<now, rq, mwLock>>
    /\ UNCHANGED <<cbVars, tbVars, fwVars, pxVars, tlsVars, lsVars>>
    /\ UNCHANGED <<wsVars, grpcVars, rlVars, wrrVars, acmeVars>>

\* arc_mutex_serde::serialize of the next cell: val.lock() returns the guard.
SerializeLocks ==
    /\ ser \in 1..Len(CellOrder)
    /\ mwLock[CellOrder[ser]] = 0
    /\ mwLock' = [mwLock EXCEPT ![CellOrder[ser]] = AdminHandler]
    /\ UNCHANGED <<now, appLock, rq, nLocked, ser>>
    /\ UNCHANGED <<cbVars, tbVars, fwVars, pxVars, tlsVars, lsVars>>
    /\ UNCHANGED <<wsVars, grpcVars, rlVars, wrrVars, acmeVars>>

\* T::serialize has written the cell's content; the guard is dropped.
SerializeUnlocks ==
    /\ ser \in 1..Len(CellOrder)
    /\ mwLock[CellOrder[ser]] = AdminHandler
    /\ can_finish(AdminHandler, "serialize")
    /\ mwLock' = [mwLock EXCEPT ![CellOrder[ser]] = 0]
    /\ ser' = ser + 1
    /\ UNCHANGED <<now, appLock, rq, nLocked>>
    /\ UNCHANGED <<cbVars, tbVars, fwVars, pxVars, tlsVars, lsVars>>
    /\ UNCHANGED <<wsVars, grpcVars, rlVars, wrrVars, acmeVars>>

\* The configuration is written out; the admin handler drops the mutex.
SerializeEnds ==
    /\ appLock = AdminHandler
    /\ ser = Len(CellOrder) + 1
    /\ appLock' = 0
    /\ ser' = 0
    /\ UNCHANGED <<now, rq, nLocked, mwLock>>
    /\ UNCHANGED <<cbVars, tbVars, fwVars, pxVars, tlsVars, lsVars>>
    /\ UNCHANGED <<wsVars, grpcVars, rlVars, wrrVars, acmeVars>>

NextAppLock ==
    \/ \E t \in LockTasks : LockConfig(t)
    \/ \E t \in LockTasks : \E c \in MiddlewareCells : ReachCell(t, c)
    \/ \E t \in LockTasks : CheckLocks(t)
    \/ \E t \in LockTasks : CheckReturns(t)
    \/ \E t \in LockTasks : \E d \in DestinationKinds : DestinationFound(t, d)
    \/ \E t \in LockTasks : \E c \in RecordingCells \cup {"none"} : AwaitCompletes(t, c)
    \/ \E t \in LockTasks : RecordLocks(t)
    \/ \E t \in LockTasks : RecordReturns(t)
    \/ ListenerLocks
    \/ ListenerUnlocks
    \/ SerializeBegins
    \/ SerializeLocks
    \/ SerializeUnlocks
    \/ SerializeEnds

SpecAppLock == InitAppLock /\ [][NextAppLock]_vars

\* C30: a request task holds the AppConfig mutex only inside
\* get_destination; while it awaits the upstream request, the relay or the
\* gRPC call the mutex is not its own, so the mutex is free for the other
\* request tasks and the supervisor whenever none of them is inside its own
\* critical section.
C30_LockOnlyInGetDestination ==
    /\ \A t \in LockTasks : appLock = t <=> rq[t].pc = "get_destination"
    /\ (\A t \in LockTasks : rq[t].pc # "get_destination") =>
           appLock \in {0} \cup SupervisorTasks

\* One task awaits its upstream while another is inside get_destination
\* with the mutex.
C30_Witness ==
    \E t, u \in LockTasks :
        /\ rq[t].pc = "awaiting" /\ rq[t].dest = "Http"
        /\ rq[u].pc = "get_destination" /\ appLock = u


\* The cells that holder h holds.
CellsHeldBy(h) == {c \in MiddlewareCells : mwLock[c] = h}

\* Task t stands at the lock() of a cell that another holder has.
WaitsForCell(t) ==
    /\ rq[t].cell # "none"
    /\ mwLock[rq[t].cell] \notin {0, t}

\* C35: no execution deadlocks on the AppConfig mutex and the middleware
\* cells. A cell is acquired either under the configuration mutex (the
\* check phase inside get_destination, the serialisation by the admin
\* handler) or by a task that holds no lock at all (record_outcome); no
\* holder has two cells; a task that is about to request the configuration
\* mutex holds no cell; whoever holds a cell can always run its critical
\* section to the end and release it; and the holder of the configuration
\* mutex can either take a step or waits for a cell whose holder can.
C35_NoDeadlockConfigThenCell ==
    /\ \A c \in MiddlewareCells :
           LET h == mwLock[c]
           IN  h # 0 =>
                 /\ h \in LockTasks \cup {AdminHandler}
                 /\ CellsHeldBy(h) = {c}
                 /\ h = AdminHandler => appLock = h /\ ser \in 1..Len(CellOrder)
                 /\ h \in LockTasks =>
                       /\ rq[h].cell = c
                       /\ rq[h].pc \in {"get_destination", "record_outcome"}
                       /\ rq[h].pc = "get_destination" => appLock = h
                       /\ rq[h].pc = "record_outcome" => appLock # h
                       /\ ENABLED (CheckReturns(h) \/ RecordReturns(h))
                 /\ h = AdminHandler => ENABLED SerializeUnlocks
    /\ \A t \in LockTasks :
           /\ rq[t].pc \in {"idle", "done", "awaiting"} => CellsHeldBy(t) = {}
           /\ appLock = t =>
                 \/ ENABLED (CheckLocks(t) \/ CheckReturns(t)
                               \/ \E d \in DestinationKinds : DestinationFound(t, d))
                 \/ WaitsForCell(t)
    /\ appLock = AdminHandler =>
           \/ ENABLED (SerializeLocks \/ SerializeUnlocks \/ SerializeEnds)
           \/ mwLock[CellOrder[ser]] \in LockTasks
    /\ appLock = StartingListener => ENABLED ListenerUnlocks

\* One task is inside record_outcome with the breaker's cell and no other
\* lock, while another, inside get_destination with the configuration
\* mutex, stands at the lock() of the same cell.
C35_Witness ==
    \E t, u \in LockTasks :
        /\ rq[t].pc = "record_outcome" /\ mwLock["CircuitBreaker"] = t
        /\ appLock = u /\ rq[u].pc = "get_destination"
        /\ rq[u].cell = "CircuitBreaker"

====
